---- MODULE Spec2Model ----
(***************************************************************************)
(* A model of the Orion language pipeline (orion_compiler): the Type       *)
(* Analyzer and the bytecode Compiler as operators over AST values, and    *)
(* the stack VM as a state machine that executes the compiled bytes.       *)
(*                                                                         *)
(* Conventions.  A runtime value is a record [t, v]: t is the host kind    *)
(* ("nil", "bool", "int", "float", "str", "fn", "native", "cdef", "bound", *)
(* or "ref" for a mutable object living in the heap), v its payload.  A    *)
(* float is carried as a reduced fraction <<num, den>>.  AST nodes are     *)
(* records with a field k naming the node class of ast_nodes.py.  Python   *)
(* dicts keyed by arbitrary values are association lists (sequences of     *)
(* [key, val]) in insertion order.                                         *)
(***************************************************************************)
EXTENDS Integers, Sequences, FiniteSets, TLC

VARIABLES
    \* ---- compile(source): the driver of compiler.py
    unit,           \* the AST handed to the Type Analyzer: its top-level statements
    analyzer,       \* the TypeAnalyzer object (its fields, as a record)
    visited,        \* indices of the top-level statements analyze() has visited
    phase,          \* "analyze" | "codegen" | "done" | "fatal"
    compiled,       \* what compile() returned: None or a function value
    \* ---- is_assignable applied to drawn inputs
    q,
    \* ---- parse() applied to drawn sources
    parsing,        \* the Parser object, the statements parse() has collected, its position
    \* ---- scan_tokens() applied to drawn inputs
    lexing,         \* the Lexer object and how far scan_tokens() has come
    \* ---- the VMs (vm.py) and their embedder (orion.py, event_dispatcher.py)
    vm,             \* per VM instance: stack, frames, globals, native_modules, status, result
    heap,           \* the host's mutable objects (lists, dicts, instances, classes)
    out,            \* what the natives and the VM have printed, in order
    host,           \* the embedder: calls made, the call in progress, what it returned
    callerStacks    \* history: per frame, the operand stack below its base at CALL time

taVars == <<unit, analyzer, visited, phase, compiled>>
vmVars == <<vm, heap, out, host, callerStacks>>
vars == <<unit, analyzer, visited, phase, compiled, q, parsing, lexing, vm, heap, out, host, callerStacks>>

(***************************************************************************)
(* Generic helpers                                                         *)
(***************************************************************************)
None == [k |-> "None"]

\* Names a value for the expression that uses it.
Let(value, body(_)) == body(value)

\* The same, with the value computed before the expression that uses it.
Do(value, body(_)) == CHOOSE result \in {body(computed) : computed \in {value}} : TRUE

Max(a, b) == IF a > b THEN a ELSE b

Abs(n) == IF n < 0 THEN -n ELSE n

RECURSIVE Gcd(_, _)
Gcd(a, b) == IF b = 0 THEN a ELSE Gcd(b, a % b)

Range(s) == {s[i] : i \in DOMAIN s}

\* s[lo..hi] for any lo, hi (empty when hi < lo), like a Python slice
Slice(s, lo, hi) == [i \in 1..Max(0, hi - lo + 1) |-> s[lo + i - 1]]

(***************************************************************************)
(* Runtime values (objects.py and the host's own values)                   *)
(***************************************************************************)
NilV == [t |-> "nil", v |-> 0]
BoolV(b) == [t |-> "bool", v |-> b]
IntV(n) == [t |-> "int", v |-> n]
StrV(s) == [t |-> "str", v |-> s]
FloatV(n, d) ==
        Let( Gcd(Abs(n), Abs(d)), LAMBDA g :
        Let( IF d < 0 THEN -1 ELSE 1, LAMBDA s :
       [t |-> "float", v |-> <<(s * n) \div g, (s * d) \div g>>]))

(***************************************************************************)
(* AST (ast_nodes.py).  Tokens are reduced to their lexeme, except the     *)
(* raw value tokens of a style property, which keep type and literal.      *)
(***************************************************************************)
Literal(value) == [k |-> "Literal", value |-> value]
Variable(name) == [k |-> "Variable", name |-> name]
Assign(name, value) == [k |-> "Assign", name |-> name, value |-> value]
Binary(left, op, right) == [k |-> "Binary", left |-> left, operator |-> op, right |-> right]
Unary(op, right) == [k |-> "Unary", operator |-> op, right |-> right]
Grouping(e) == [k |-> "Grouping", expression |-> e]
Logical(left, op, right) == [k |-> "Logical", left |-> left, operator |-> op, right |-> right]
Call(callee, arguments) == [k |-> "Call", callee |-> callee, arguments |-> arguments]
Get(object, name) == [k |-> "Get", object |-> object, name |-> name]
SetExpr(object, name, value) == [k |-> "Set", object |-> object, name |-> name, value |-> value]
This == [k |-> "This", keyword |-> "this"]
ListLiteral(elements) == [k |-> "ListLiteral", elements |-> elements]
DictLiteral(keys, values) == [k |-> "DictLiteral", keys |-> keys, values |-> values]
GetSubscript(object, index) == [k |-> "GetSubscript", object |-> object, index |-> index]
SetSubscript(object, index, value) ==
    [k |-> "SetSubscript", object |-> object, index |-> index, value |-> value]
GenericType(base, params) == [k |-> "GenericType", base_type |-> base, type_parameters |-> params]

Expression(e) == [k |-> "Expression", expression |-> e]
Var(name, ann, init) == [k |-> "Var", name |-> name, type_annotation |-> ann, initializer |-> init]
Block(statements) == [k |-> "Block", statements |-> statements]
If(c, th, el) == [k |-> "If", condition |-> c, then_branch |-> th, else_branch |-> el]
While(c, body) == [k |-> "While", condition |-> c, body |-> body]
Function(name, params, body) == [k |-> "Function", name |-> name, params |-> params, body |-> body]
Return(value) == [k |-> "Return", value |-> value]
ComponentStmt(name, body) == [k |-> "ComponentStmt", name |-> name, body |-> body]
StyleProp(name, values) == [k |-> "StyleProp", name |-> name, values |-> values]
StateBlock(name, props) == [k |-> "StateBlock", name |-> name, props |-> props]
ClassStmt(name, methods) == [k |-> "Class", name |-> name, methods |-> methods]
UseStmt(name, alias) == [k |-> "UseStmt", name |-> name, alias |-> alias]
ModuleStmt(name) == [k |-> "ModuleStmt", name |-> name]

\* a raw token of a style property value
Tok(type, lexeme, literal) == [token_type |-> type, lexeme |-> lexeme, literal |-> literal]

\* tokens.keywords: the reserved words and their token types
KeywordTexts ==
    {"and", "as", "bool", "class", "component", "const", "else", "false",
    "float", "for", "function", "if", "import", "int", "let", "license",
    "module", "or", "permissions", "private", "public", "return", "string",
    "super", "switch", "this", "true", "use", "var", "void", "while"}

keywords ==
    [text \in KeywordTexts |->
        CASE text = "and" -> "AND"
          [] text = "as" -> "AS"
          [] text = "bool" -> "BOOL"
          [] text = "class" -> "CLASS"
          [] text = "component" -> "COMPONENT"
          [] text = "const" -> "CONST"
          [] text = "else" -> "ELSE"
          [] text = "false" -> "FALSE"
          [] text = "float" -> "FLOAT"
          [] text = "for" -> "FOR"
          [] text = "function" -> "FUNCTION"
          [] text = "if" -> "IF"
          [] text = "import" -> "IMPORT"
          [] text = "int" -> "INT"
          [] text = "let" -> "LET"
          [] text = "license" -> "LICENSE"
          [] text = "module" -> "MODULE"
          [] text = "or" -> "OR"
          [] text = "permissions" -> "PERMISSIONS"
          [] text = "private" -> "PRIVATE"
          [] text = "public" -> "PUBLIC"
          [] text = "return" -> "RETURN"
          [] text = "string" -> "STRING_TYPE"
          [] text = "super" -> "SUPER"
          [] text = "switch" -> "SWITCH"
          [] text = "this" -> "THIS"
          [] text = "true" -> "TRUE"
          [] text = "use" -> "USE"
          [] text = "var" -> "VAR"
          [] text = "void" -> "VOID"
          [] OTHER -> "WHILE"]

\* Lexer._identifier: self._add_token(token_type), the literal left at None
Lexer_identifier(text) ==
    Tok(IF text \in DOMAIN keywords THEN keywords[text] ELSE "IDENTIFIER", text, NilV)

\* Lexer._number: the literal is the number read
Lexer_number(text, value) == Tok("NUMBER", text, value)

\* Lexer._string: the literal is the text between the quotes
Lexer_string(text) == Tok("STRING", text, StrV(text))

(***************************************************************************)
(* Types (orion_types.py): frozen dataclasses, compared field by field     *)
(***************************************************************************)
PrimitiveType(name) == [k |-> "prim", name |-> name, args |-> <<>>]
ListType(element_type) == [k |-> "list", name |-> "list", args |-> <<element_type>>]
DictType(key_type, value_type) == [k |-> "dict", name |-> "dict", args |-> <<key_type, value_type>>]
ComponentType(name) == [k |-> "component", name |-> name, args |-> <<>>]
ClassType(name) == [k |-> "class", name |-> name, args |-> <<>>]

ANY == PrimitiveType("any")
NIL == PrimitiveType("nil")
BOOL == PrimitiveType("bool")
NUMBER == PrimitiveType("number")
STRING_TYPE == PrimitiveType("string")
FUNCTION == PrimitiveType("function")
TYPE == PrimitiveType("type")
COMPONENT == PrimitiveType("component")
MODULE_TYPE == PrimitiveType("module")
CLASS == PrimitiveType("class")
ANY_LIST == ListType(ANY)
ANY_DICT == DictType(ANY, ANY)

(***************************************************************************)
(* TypeAnalyzer (compiler.py).  The analyzer object is a record; every     *)
(* visit method is an operator from (analyzer, node) to the analyzer after *)
(* the visit, whose field ret holds the method's return value.  A host     *)
(* exception raised inside a visit sets crashed and freezes the object:    *)
(* compile() catches it and returns None.                                  *)
(***************************************************************************)
TA_init ==
    [ locals |-> <<>>,
      globals |-> [n \in {"clock", "print", "slice", "lexer", "draw", "fs"} |->
                     IF n \in {"clock", "print", "slice"} THEN FUNCTION ELSE MODULE_TYPE],
      current_component |-> None,
      component_props |-> <<>>,
      scope_depth |-> 0,
      had_error |-> FALSE,
      type_map |-> [n \in {"any", "nil", "bool", "number", "string", "function",
                           "component", "module", "list", "dict"} |->
                     CASE n = "any" -> ANY [] n = "nil" -> NIL [] n = "bool" -> BOOL
                       [] n = "number" -> NUMBER [] n = "string" -> STRING_TYPE
                       [] n = "function" -> FUNCTION [] n = "component" -> COMPONENT
                       [] n = "module" -> MODULE_TYPE [] n = "list" -> ANY_LIST
                       [] OTHER -> ANY_DICT],
      errors |-> <<>>,
      crashed |-> FALSE,
      ret |-> ANY,
      rets |-> <<>> ]

\* errors.type_error(...) (or print) followed by self.had_error = True
TA_report_unflagged(ta, kind, at, types) ==
    [ta EXCEPT !.errors = Append(@, [kind |-> kind, at |-> at, types |-> types])]

TA_report(ta, kind, at, types) ==
    [ta EXCEPT !.errors = Append(@, [kind |-> kind, at |-> at, types |-> types]),
               !.had_error = TRUE]

TA_return(ta, type) == [ta EXCEPT !.ret = type]

RECURSIVE is_assignable(_, _)
\* a plausible slip: the value == ANY escape forgotten
is_assignable_target_only(target, value) ==
    IF target = value \/ target = ANY THEN TRUE
    ELSE IF target.k = "list" /\ value.k = "list"
         THEN is_assignable(target.args[1], value.args[1])
    ELSE IF target.k = "dict" /\ value.k = "dict"
         THEN IF value.args[1] = ANY /\ value.args[2] = ANY THEN TRUE
              ELSE is_assignable(target.args[1], value.args[1])
                   /\ is_assignable(target.args[2], value.args[2])
    ELSE FALSE

is_assignable(target, value) ==
    IF target = value \/ target = ANY \/ value = ANY THEN TRUE
    ELSE IF target.k = "list" /\ value.k = "list"
         THEN is_assignable(target.args[1], value.args[1])
    ELSE IF target.k = "dict" /\ value.k = "dict"
         THEN IF value.args[1] = ANY /\ value.args[2] = ANY THEN TRUE
              ELSE is_assignable(target.args[1], value.args[1])
                   /\ is_assignable(target.args[2], value.args[2])
    ELSE FALSE

TA_begin_scope(ta) == [ta EXCEPT !.scope_depth = @ + 1]

RECURSIVE TA_pop_locals(_, _)
TA_pop_locals(locals, depth) ==
    IF Len(locals) > 0 /\ locals[Len(locals)].depth > depth
    THEN TA_pop_locals(SubSeq(locals, 1, Len(locals) - 1), depth)
    ELSE locals

TA_end_scope(ta) ==
    [ta EXCEPT !.scope_depth = @ - 1, !.locals = TA_pop_locals(@, ta.scope_depth - 1)]

TA_add_local(ta, name, type) ==
    [ta EXCEPT !.locals = Append(@, [name |-> name, depth |-> ta.scope_depth, type |-> type])]

TA_set_global(ta, name, type) == [ta EXCEPT !.globals = (name :> type) @@ @]

\* the innermost local of that name, 0 when there is none
RECURSIVE TA_find_local(_, _, _)
TA_find_local(locals, name, i) ==
    IF i = 0 THEN 0
    ELSE IF locals[i].name = name THEN i
    ELSE TA_find_local(locals, name, i - 1)

TA_get_var_type(ta, name) ==
        Let( TA_find_local(ta.locals, name, Len(ta.locals)), LAMBDA i :
       IF i # 0 THEN TA_return(ta, ta.locals[i].type)
       ELSE IF name \in DOMAIN ta.globals THEN TA_return(ta, ta.globals[name])
       ELSE TA_return(TA_report(ta, "undeclared", name, <<>>), ANY))

\* nodes with a name token; any other base of a generic annotation makes
\* type_expr.base_type.name raise AttributeError
HasNameToken(e) == e.k \in {"Variable", "Assign", "Get", "Set"}

RECURSIVE TA_resolve_type_expr(_, _), TA_resolve_params(_, _, _)
TA_resolve_params(ta, ps, acc) ==
    IF ta.crashed THEN ta
    ELSE IF ps = <<>> THEN [ta EXCEPT !.rets = acc]
    ELSE     Let( TA_resolve_type_expr(ta, Head(ps)), LAMBDA r :
            TA_resolve_params(r, Tail(ps), Append(acc, r.ret)))

TA_resolve_type_expr(ta, type_expr) ==
    IF type_expr = None THEN TA_return(ta, ANY)
    ELSE IF type_expr.k = "Variable"
         THEN TA_return(ta, IF type_expr.name \in DOMAIN ta.type_map
                            THEN ta.type_map[type_expr.name] ELSE ANY)
    ELSE IF type_expr.k = "GenericType"
         THEN IF ~HasNameToken(type_expr.base_type) THEN [ta EXCEPT !.crashed = TRUE]
              ELSE     Let(              type_expr.base_type.name, LAMBDA base_type_name :
                       Let( TA_resolve_params(ta, type_expr.type_parameters, <<>>), LAMBDA r :
                       Let(      r.rets, LAMBDA params :
                      IF r.crashed THEN r
                      ELSE IF base_type_name = "list"
                           THEN IF Len(params) # 1
                                THEN TA_return(TA_report(r, "list_arity", "list", <<>>), ANY_LIST)
                                ELSE TA_return(r, ListType(params[1]))
                      ELSE IF base_type_name = "dict"
                           THEN IF Len(params) # 2
                                THEN TA_return(TA_report(r, "dict_arity", "dict", <<>>), ANY_DICT)
                                ELSE TA_return(r, DictType(params[1], params[2]))
                      ELSE TA_return(TA_report(r, "not_generic", base_type_name, <<>>), ANY))))
    ELSE TA_return(ta, ANY)

TA_visit_literal_expr(ta, expr) ==
    TA_return(ta, CASE expr.value.t = "bool" -> BOOL
                    [] expr.value.t \in {"int", "float"} -> NUMBER
                    [] expr.value.t = "str" -> STRING_TYPE
                    [] expr.value.t = "nil" -> NIL
                    [] OTHER -> ANY)

TA_infer_type_from_style_prop(prop) ==
    IF Len(prop.values) = 0 THEN NIL
    ELSE IF Len(prop.values) = 1
         THEN     Let(     prop.values[1], LAMBDA token :
                 IF token.token_type = "NUMBER" THEN NUMBER
                 ELSE IF token.token_type = "STRING" THEN STRING_TYPE
                 ELSE IF token.token_type \in {"TRUE", "FALSE"} THEN BOOL
                 ELSE ANY)
    ELSE ANY

AllAssignable(first, types) == \A i \in DOMAIN types : is_assignable(first, types[i])

RECURSIVE TA_analyze_expr(_, _), TA_analyze_exprs(_, _, _), TA_analyze_stmt(_, _),
          TA_analyze_stmts(_, _), TA_visit_function_stmt(_, _), TA_visit_methods(_, _, _)

\* [self._analyze_expr(e) for e in exprs]: the types end in rets
TA_analyze_exprs(ta, exprs, acc) ==
    IF exprs = <<>> THEN [ta EXCEPT !.rets = acc]
    ELSE     Let( TA_analyze_expr(ta, Head(exprs)), LAMBDA r :
            TA_analyze_exprs(r, Tail(exprs), Append(acc, r.ret)))

TA_visit_assign_expr(ta, expr) ==
        Let( TA_analyze_expr(ta, expr.value), LAMBDA v :
        Let(          v.ret, LAMBDA value_type :
        Let( TA_get_var_type(v, expr.name), LAMBDA g :
        Let(        g.ret, LAMBDA var_type :
       IF ~is_assignable(var_type, value_type)
       THEN TA_return(TA_report(g, "assign", expr.name, <<value_type, var_type>>), value_type)
       ELSE TA_return(g, value_type)))))

TA_visit_binary_expr(ta, expr) ==
        Let( TA_analyze_expr(ta, expr.left), LAMBDA l :
        Let(         l.ret, LAMBDA left_type :
        Let( TA_analyze_expr(l, expr.right), LAMBDA r :
        Let(          r.ret, LAMBDA right_type :
        Let(  expr.operator, LAMBDA op :
       IF op \in {"MINUS", "STAR", "SLASH", "GREATER", "LESS"}
       THEN     Let(   IF op \in {"GREATER", "LESS"} THEN BOOL ELSE NUMBER, LAMBDA res :
               IF left_type # ANY /\ right_type # ANY
                  /\ (left_type # NUMBER \/ right_type # NUMBER)
               THEN TA_return(TA_report(r, "operands_numbers", op, <<left_type, right_type>>), res)
               ELSE TA_return(r, res))
       ELSE IF op = "PLUS"
            THEN IF left_type = NUMBER /\ right_type = NUMBER THEN TA_return(r, NUMBER)
                 ELSE IF left_type = STRING_TYPE /\ right_type = STRING_TYPE THEN TA_return(r, STRING_TYPE)
                 ELSE IF left_type = ANY \/ right_type = ANY THEN TA_return(r, ANY)
                 ELSE TA_return(TA_report(r, "operands_plus", op, <<left_type, right_type>>), ANY)
       ELSE IF op = "EQUAL_EQUAL" THEN TA_return(r, BOOL)
       ELSE TA_return(r, ANY))))))

TA_visit_unary_expr(ta, expr) ==
        Let( TA_analyze_expr(ta, expr.right), LAMBDA r :
        Let(          r.ret, LAMBDA right_type :
        Let(  expr.operator, LAMBDA op :
       IF op = "MINUS"
       THEN IF right_type # ANY /\ right_type # NUMBER
            THEN TA_return(TA_report(r, "operand_minus", op, <<right_type>>), NUMBER)
            ELSE TA_return(r, NUMBER)
       ELSE IF op = "BANG"
            THEN IF right_type # ANY /\ right_type # BOOL
                 THEN TA_return(TA_report(r, "operand_bang", op, <<right_type>>), BOOL)
                 ELSE TA_return(r, BOOL)
       ELSE TA_return(r, ANY))))

TA_visit_call_expr(ta, expr) ==
        Let( TA_analyze_expr(ta, expr.callee), LAMBDA c :
        Let(           c.ret, LAMBDA callee_type :
       IF callee_type = TYPE /\ expr.callee.k = "Variable"
          /\ expr.callee.name \in DOMAIN c.type_map
          /\ c.type_map[expr.callee.name].k = "component"
       THEN TA_return(c, c.type_map[expr.callee.name])
       ELSE TA_return(c, ANY)))

TA_visit_get_expr(ta, expr) ==
        Let( TA_analyze_expr(ta, expr.object), LAMBDA o :
        Let(           o.ret, LAMBDA object_type :
       IF object_type.k = "list"
       THEN IF expr.name = "length" THEN TA_return(o, NUMBER)
            ELSE TA_return(TA_report(o, "list_no_property", expr.name, <<>>), ANY)
       ELSE IF object_type.k = "component"
            THEN IF object_type.name \in DOMAIN o.component_props
                    /\ expr.name \in DOMAIN o.component_props[object_type.name]
                 THEN TA_return(o, o.component_props[object_type.name][expr.name])
                 ELSE TA_return(TA_report(o, "no_property", expr.name, <<object_type>>), ANY)
       ELSE IF object_type = MODULE_TYPE THEN TA_return(o, ANY)
       ELSE IF object_type = ANY THEN TA_return(o, ANY)
       ELSE TA_return(TA_report(o, "not_gettable", expr.name, <<object_type>>), ANY)))

TA_visit_set_expr(ta, expr) ==
        Let( TA_analyze_expr(ta, expr.object), LAMBDA o :
        Let(           o.ret, LAMBDA object_type :
        Let( TA_analyze_expr(o, expr.value), LAMBDA v :
        Let(          v.ret, LAMBDA value_type :
       IF object_type.k = "list"
       THEN TA_return(TA_report(v, "list_set_property", expr.name, <<>>), value_type)
       ELSE IF object_type.k = "component"
            THEN IF object_type.name \in DOMAIN v.component_props
                    /\ expr.name \in DOMAIN v.component_props[object_type.name]
                 THEN     Let(             v.component_props[object_type.name][expr.name], LAMBDA expected_type :
                         IF ~is_assignable(expected_type, value_type)
                         THEN TA_return(TA_report(v, "property_assign", expr.name,
                                                  <<value_type, expected_type>>), value_type)
                         ELSE TA_return(v, value_type))
                 ELSE TA_return(TA_report(v, "no_property", expr.name, <<object_type>>), value_type)
       ELSE IF object_type # ANY
            THEN TA_return(TA_report(v, "not_settable", expr.name, <<object_type>>), value_type)
       ELSE TA_return(v, value_type)))))

TA_visit_this_expr(ta, expr) ==
    IF ta.current_component = None
    THEN TA_return(TA_report(ta, "this_outside", "this", <<>>), ANY)
    ELSE TA_return(ta, ta.current_component)

TA_visit_list_literal_expr(ta, expr) ==
    IF expr.elements = <<>> THEN TA_return(ta, ListType(ANY))
    ELSE     Let( TA_analyze_exprs(ta, expr.elements, <<>>), LAMBDA r :
             Let(             r.rets, LAMBDA element_types :
             Let(          element_types[1], LAMBDA first_type :
            TA_return(r, IF AllAssignable(first_type, element_types)
                         THEN ListType(first_type) ELSE ListType(ANY)))))

RECURSIVE TA_report_bad_keys(_, _)
TA_report_bad_keys(ta, key_types) ==
    IF key_types = <<>> THEN ta
    ELSE TA_report_bad_keys(
             IF Head(key_types) # ANY /\ Head(key_types) # STRING_TYPE
             THEN TA_report(ta, "dict_key", "key", <<Head(key_types)>>) ELSE ta,
             Tail(key_types))

TA_visit_dict_literal_expr(ta, expr) ==
    IF expr.keys = <<>> THEN TA_return(ta, DictType(ANY, ANY))
    ELSE     Let(  TA_analyze_exprs(ta, expr.keys, <<>>), LAMBDA ks :
             Let(         ks.rets, LAMBDA key_types :
             Let(  TA_analyze_exprs(ks, expr.values, <<>>), LAMBDA vs :
             Let(           vs.rets, LAMBDA value_types :
             Let(   TA_report_bad_keys(vs, key_types), LAMBDA chk :
             Let(                value_types[1], LAMBDA first_value_type :
            TA_return(chk, IF AllAssignable(first_value_type, value_types)
                           THEN DictType(STRING_TYPE, first_value_type)
                           ELSE DictType(STRING_TYPE, ANY))))))))

TA_visit_get_subscript_expr(ta, expr) ==
        Let( TA_analyze_expr(ta, expr.object), LAMBDA o :
        Let(           o.ret, LAMBDA object_type :
        Let( TA_analyze_expr(o, expr.index), LAMBDA i :
        Let(          i.ret, LAMBDA index_type :
       IF object_type.k = "list"
       THEN TA_return(IF ~is_assignable(NUMBER, index_type)
                      THEN TA_report(i, "list_index", "]", <<index_type>>) ELSE i,
                      object_type.args[1])
       ELSE IF object_type.k = "dict"
            THEN TA_return(IF ~is_assignable(object_type.args[1], index_type)
                           THEN TA_report(i, "dict_index", "]", <<index_type, object_type.args[1]>>)
                           ELSE i,
                           object_type.args[2])
       ELSE IF object_type # ANY
            THEN TA_return(TA_report(i, "not_subscriptable", "]", <<object_type>>), ANY)
       ELSE TA_return(i, ANY)))))

TA_visit_set_subscript_expr(ta, expr) ==
        Let( TA_analyze_expr(ta, expr.object), LAMBDA o :
        Let(           o.ret, LAMBDA object_type :
        Let( TA_analyze_expr(o, expr.index), LAMBDA i :
        Let(          i.ret, LAMBDA index_type :
        Let( TA_analyze_expr(i, expr.value), LAMBDA v :
        Let(          v.ret, LAMBDA value_type :
       IF object_type.k = "list"
       THEN     Let( IF ~is_assignable(NUMBER, index_type)
                     THEN TA_report(v, "list_index", "]", <<index_type>>) ELSE v, LAMBDA a :
                Let( IF ~is_assignable(object_type.args[1], value_type)
                     THEN TA_report(a, "list_element", "]", <<value_type, object_type>>) ELSE a, LAMBDA b :
               TA_return(b, value_type)))
       ELSE IF object_type.k = "dict"
            THEN     Let( IF ~is_assignable(object_type.args[1], index_type)
                          THEN TA_report(v, "dict_index", "]", <<index_type, object_type.args[1]>>)
                          ELSE v, LAMBDA a :
                     Let( IF ~is_assignable(object_type.args[2], value_type)
                          THEN TA_report(a, "dict_value", "]", <<value_type, object_type>>) ELSE a, LAMBDA b :
                    TA_return(b, value_type)))
       ELSE IF object_type # ANY
            THEN TA_return(TA_report(v, "not_subscriptable", "]", <<object_type>>), value_type)
       ELSE TA_return(v, value_type)))))))

TA_analyze_expr(ta, expr) ==
    CASE expr.k = "Literal" -> TA_visit_literal_expr(ta, expr)
      [] expr.k = "Grouping" -> TA_analyze_expr(ta, expr.expression)
      [] expr.k = "Variable" -> TA_get_var_type(ta, expr.name)
      [] expr.k = "GenericType" -> TA_return(ta, ANY)
      [] expr.k = "Logical" -> TA_return(ta, BOOL)
      [] expr.k = "Assign" -> TA_visit_assign_expr(ta, expr)
      [] expr.k = "Binary" -> TA_visit_binary_expr(ta, expr)
      [] expr.k = "Unary" -> TA_visit_unary_expr(ta, expr)
      [] expr.k = "Call" -> TA_visit_call_expr(ta, expr)
      [] expr.k = "Get" -> TA_visit_get_expr(ta, expr)
      [] expr.k = "Set" -> TA_visit_set_expr(ta, expr)
      [] expr.k = "This" -> TA_visit_this_expr(ta, expr)
      [] expr.k = "ListLiteral" -> TA_visit_list_literal_expr(ta, expr)
      [] expr.k = "DictLiteral" -> TA_visit_dict_literal_expr(ta, expr)
      [] expr.k = "GetSubscript" -> TA_visit_get_subscript_expr(ta, expr)
      [] expr.k = "SetSubscript" -> TA_visit_set_subscript_expr(ta, expr)

TA_visit_var_stmt(ta, stmt) ==
        Let( TA_resolve_type_expr(ta, stmt.type_annotation), LAMBDA d :
       IF d.crashed THEN d
       ELSE     Let( IF stmt.initializer # None THEN TA_analyze_expr(d, stmt.initializer) ELSE d, LAMBDA i :
                Let(         i.ret, LAMBDA init_type :
                Let(             IF stmt.initializer # None /\ d.ret = ANY THEN init_type ELSE d.ret, LAMBDA declared_type :
                Let( IF stmt.initializer # None /\ ~is_assignable(declared_type, init_type)
                     THEN TA_report(i, "initializer", stmt.name, <<init_type, declared_type>>)
                     ELSE i, LAMBDA c :
               IF c.scope_depth > 0 THEN TA_add_local(c, stmt.name, declared_type)
               ELSE TA_set_global(c, stmt.name, declared_type))))))

TA_check_condition(ta, kind) ==
    IF ta.ret # ANY /\ ta.ret # BOOL THEN TA_report(ta, kind, "condition", <<ta.ret>>) ELSE ta

TA_visit_if_stmt(ta, stmt) ==
        Let( TA_check_condition(TA_analyze_expr(ta, stmt.condition), "if_condition"), LAMBDA c :
        Let( TA_analyze_stmt(c, stmt.then_branch), LAMBDA t :
       IF stmt.else_branch # None THEN TA_analyze_stmt(t, stmt.else_branch) ELSE t))

TA_visit_while_stmt(ta, stmt) ==
    TA_analyze_stmt(TA_check_condition(TA_analyze_expr(ta, stmt.condition), "while_condition"),
                    stmt.body)

TA_visit_block_stmt(ta, stmt) ==
        Let( TA_analyze_stmts(TA_begin_scope(ta), stmt.statements), LAMBDA r :
       IF r.crashed THEN r ELSE TA_end_scope(r))

RECURSIVE TA_add_params(_, _)
TA_add_params(ta, params) ==
    IF params = <<>> THEN ta
    ELSE TA_add_params(TA_add_local(ta, Head(params), ANY), Tail(params))

TA_visit_function_stmt(ta, stmt) ==
        Let( IF ta.scope_depth > 0 THEN TA_add_local(ta, stmt.name, FUNCTION)
             ELSE TA_set_global(ta, stmt.name, FUNCTION), LAMBDA n :
        Let( TA_analyze_stmts(TA_add_params(TA_begin_scope(n), stmt.params), stmt.body), LAMBDA r :
       IF r.crashed THEN r ELSE TA_end_scope(r)))

\* pass 1 of visit_component_stmt: the style properties, in body order
RECURSIVE TA_style_props(_, _)
TA_style_props(body, props) ==
    IF body = <<>> THEN props
    ELSE TA_style_props(Tail(body),
             IF Head(body).k = "StyleProp"
             THEN (Head(body).name :> TA_infer_type_from_style_prop(Head(body))) @@ props
             ELSE props)

\* pass 2: props is the very dict stored in component_props, so each method
\* becomes visible to this.<name> when the loop reaches it
TA_visit_methods(ta, component_name, body) ==
    IF body = <<>> \/ ta.crashed THEN ta
    ELSE IF Head(body).k = "Function"
         THEN     Let(   [ta EXCEPT !.component_props[component_name] =
                                         (Head(body).name :> FUNCTION) @@ @], LAMBDA reg :
                 TA_visit_methods(TA_visit_function_stmt(reg, Head(body)),
                                  component_name, Tail(body)))
    ELSE TA_visit_methods(ta, component_name, Tail(body))

TA_visit_component_stmt(ta, stmt) ==
        Let(              stmt.name, LAMBDA component_name :
        Let(                  ComponentType(component_name), LAMBDA new_component_type :
        Let(                  ta.current_component, LAMBDA original_component :
        Let( [ta EXCEPT !.type_map = (component_name :> new_component_type) @@ @,
                        !.globals = (component_name :> TYPE) @@ @,
                        !.current_component = new_component_type,
                        !.component_props =
                            (component_name :> TA_style_props(stmt.body, <<>>)) @@ @], LAMBDA s :
        Let( TA_visit_methods(s, component_name, stmt.body), LAMBDA r :
       IF r.crashed THEN r ELSE [r EXCEPT !.current_component = original_component])))))

RECURSIVE TA_visit_class_methods(_, _)
TA_visit_class_methods(ta, methods) ==
    IF methods = <<>> \/ ta.crashed THEN ta
    ELSE TA_visit_class_methods(TA_visit_function_stmt(ta, Head(methods)), Tail(methods))

TA_visit_class_stmt(ta, stmt) ==
        Let( [ta EXCEPT !.type_map = (stmt.name :> ClassType(stmt.name)) @@ @,
                        !.globals = (stmt.name :> CLASS) @@ @], LAMBDA s :
        Let( TA_visit_class_methods(TA_begin_scope(s), stmt.methods), LAMBDA r :
       IF r.crashed THEN r ELSE TA_end_scope(r)))

TA_visit_use_stmt(ta, stmt) ==
    TA_set_global(ta, IF stmt.alias # None THEN stmt.alias.lexeme ELSE stmt.name, MODULE_TYPE)

TA_analyze_stmt(ta, stmt) ==
    CASE stmt.k = "Expression" -> TA_analyze_expr(ta, stmt.expression)
      [] stmt.k = "Var" -> TA_visit_var_stmt(ta, stmt)
      [] stmt.k = "Block" -> TA_visit_block_stmt(ta, stmt)
      [] stmt.k = "If" -> TA_visit_if_stmt(ta, stmt)
      [] stmt.k = "While" -> TA_visit_while_stmt(ta, stmt)
      [] stmt.k = "Function" -> TA_visit_function_stmt(ta, stmt)
      [] stmt.k = "Return" ->
            IF stmt.value # None THEN TA_analyze_expr(ta, stmt.value) ELSE ta
      [] stmt.k = "ComponentStmt" -> TA_visit_component_stmt(ta, stmt)
      [] stmt.k = "Class" -> TA_visit_class_stmt(ta, stmt)
      [] stmt.k = "UseStmt" -> TA_visit_use_stmt(ta, stmt)
      [] stmt.k \in {"StyleProp", "StateBlock", "ModuleStmt"} -> ta

\* analyze(): for stmt in statements; a host exception ends the loop.  The
\* loop over a list is the loop over its first half, then over its second.
TA_analyze_stmts(ta, statements) ==
    IF statements = <<>> \/ ta.crashed THEN ta
    ELSE IF Len(statements) = 1 THEN TA_analyze_stmt(ta, statements[1])
    ELSE     Let(          Len(statements) \div 2, LAMBDA half :
             Let( TA_analyze_stmts(ta, SubSeq(statements, 1, half)), LAMBDA first :
            IF first.crashed THEN first
            ELSE TA_analyze_stmts(first, SubSeq(statements, half + 1, Len(statements)))))

(***************************************************************************)
(* Bytecode (bytecode.py).  Offsets into code and constants are the        *)
(* source's 0-based offsets; At reads a sequence at such an offset.        *)
(***************************************************************************)
OP_CONSTANT == 0
OP_NIL == 1
OP_TRUE == 2
OP_FALSE == 3
OP_POP == 4
OP_NEGATE == 5
OP_NOT == 6
OP_ADD == 7
OP_SUBTRACT == 8
OP_MULTIPLY == 9
OP_DIVIDE == 10
OP_EQUAL == 11
OP_GREATER == 12
OP_LESS == 13
OP_DEFINE_GLOBAL == 14
OP_GET_GLOBAL == 15
OP_SET_GLOBAL == 16
OP_GET_LOCAL == 17
OP_SET_LOCAL == 18
OP_JUMP_IF_FALSE == 19
OP_JUMP == 20
OP_LOOP == 21
OP_CALL == 22
OP_RETURN == 23
OP_IMPORT_NATIVE == 24
OP_GET_PROPERTY == 25
OP_SET_PROPERTY == 26
OP_BUILD_LIST == 27
OP_GET_SUBSCRIPT == 28
OP_SET_SUBSCRIPT == 29
OP_BUILD_DICT == 30
OP_CLASS == 31
OP_METHOD == 32

At(s, i) == s[i + 1]

\* OrionCompiledFunction(arity, chunk, name)
OrionCompiledFunction(arity, code, constants, name) ==
    [t |-> "fn", v |-> [arity |-> arity, code |-> code, constants |-> constants, name |-> name]]

\* OrionComponentDef(name, properties) with its methods dict filled in
OrionComponentDef(name, properties, methods) ==
    [t |-> "cdef", v |-> [name |-> name, properties |-> properties, methods |-> methods]]

(***************************************************************************)
(* Compiler (compiler.py).  The Compiler object is a record holding the    *)
(* function under construction; crashed marks a host exception (KeyError   *)
(* of op_map, ValueError of bytearray.append) that propagates to compile(). *)
(***************************************************************************)
C_emit_byte(c, byte) ==
    IF c.crashed THEN c
    ELSE IF byte > 255 THEN [c EXCEPT !.crashed = TRUE]
    ELSE [c EXCEPT !.code = Append(@, byte)]

C_emit_bytes(c, byte1, byte2) == C_emit_byte(C_emit_byte(c, byte1), byte2)

\* Chunk.add_constant: the index of the added constant ends in ret
C_make_constant(c, value) ==
    IF c.crashed THEN c
    ELSE [c EXCEPT !.constants = Append(@, value), !.ret = Len(c.constants)]

C_set_error(c, what) ==
    IF c.crashed THEN c ELSE [c EXCEPT !.had_error = TRUE, !.errors = Append(@, what)]

\* the largest operand of OP_CONSTANT
UINT8_MAX == 255

C_emit_constant(c, value) ==
        Let( C_make_constant(c, value), LAMBDA m :
       IF m.ret > UINT8_MAX THEN C_set_error(m, "Too many constants in one chunk.")
       ELSE C_emit_bytes(m, OP_CONSTANT, m.ret))

\* _emit_bytes(op, self._make_constant(name))
C_emit_with_name(c, op, name) ==
        Let( C_make_constant(c, StrV(name)), LAMBDA m :
       C_emit_bytes(m, op, m.ret))

C_emit_return(c) ==
    C_emit_byte(IF c.type = "initializer" THEN C_emit_bytes(c, OP_GET_LOCAL, 0)
                ELSE C_emit_byte(c, OP_NIL),
                OP_RETURN)

C_begin_scope(c) == IF c.crashed THEN c ELSE [c EXCEPT !.scope_depth = @ + 1]

RECURSIVE C_pop_locals(_)
C_pop_locals(c) ==
    IF Len(c.locals) > 0 /\ c.locals[Len(c.locals)].depth > c.scope_depth
    THEN C_pop_locals([C_emit_byte(c, OP_POP) EXCEPT
                          !.locals = SubSeq(c.locals, 1, Len(c.locals) - 1)])
    ELSE c

C_end_scope(c) ==
    IF c.crashed THEN c ELSE C_pop_locals([c EXCEPT !.scope_depth = @ - 1])

C_add_local(c, name, type) ==
    IF c.crashed THEN c
    ELSE [c EXCEPT !.locals = Append(@, [name |-> name, depth |-> c.scope_depth, type |-> type])]

\* the slot of the innermost local of that name, -1 when there is none
RECURSIVE C_resolve_local_from(_, _, _)
C_resolve_local_from(locals, name, i) ==
    IF i < 0 THEN -1
    ELSE IF At(locals, i).name = name THEN i
    ELSE C_resolve_local_from(locals, name, i - 1)

C_resolve_local(c, name) == C_resolve_local_from(c.locals, name, Len(c.locals) - 1)

\* returns the offset of the placeholder in ret
C_emit_jump(c, instruction) ==
        Let( C_emit_byte(C_emit_byte(C_emit_byte(c, instruction), 255), 255), LAMBDA e :
       IF e.crashed THEN e ELSE [e EXCEPT !.ret = Len(e.code) - 2])

C_emit_loop(c, loop_start) ==
        Let( C_emit_byte(c, OP_LOOP), LAMBDA e :
        Let(      Len(e.code) - loop_start + 2, LAMBDA offset :
        Let( IF offset > 65535 THEN C_set_error(e, "Loop body too large.") ELSE e, LAMBDA f :
       C_emit_byte(C_emit_byte(f, (offset \div 256) % 256), offset % 256))))

C_patch_jump(c, offset) ==
        Let(    Len(c.code) - offset - 2, LAMBDA jump :
        Let( IF jump > 65535 THEN C_set_error(c, "Too much code to jump over.") ELSE c, LAMBDA f :
       IF c.crashed THEN c
       ELSE [f EXCEPT !.code[offset + 1] = (jump \div 256) % 256,
                      !.code[offset + 2] = jump % 256]))

\* op_map of visit_binary_expr; a missing key is a KeyError
op_map ==
    [op \in {"PLUS", "MINUS", "STAR", "SLASH", "EQUAL_EQUAL", "GREATER", "LESS"} |->
        CASE op = "PLUS" -> OP_ADD [] op = "MINUS" -> OP_SUBTRACT
          [] op = "STAR" -> OP_MULTIPLY [] op = "SLASH" -> OP_DIVIDE
          [] op = "EQUAL_EQUAL" -> OP_EQUAL [] op = "GREATER" -> OP_GREATER
          [] OTHER -> OP_LESS]

RECURSIVE C_compile_expr(_, _), C_compile_exprs(_, _), C_compile_stmt(_, _),
          C_compile_program(_, _), Compiler(_, _), C_compile_pairs(_, _, _),
          C_compile_methods(_, _, _), C_compile_class_methods(_, _)

C_compile_exprs(c, exprs) ==
    IF exprs = <<>> THEN c
    ELSE C_compile_exprs(C_compile_expr(c, Head(exprs)), Tail(exprs))

C_compile_pairs(c, keys, values) ==
    IF keys = <<>> THEN c
    ELSE C_compile_pairs(C_compile_expr(C_compile_expr(c, Head(keys)), Head(values)),
                         Tail(keys), Tail(values))

C_visit_unary_expr(c, expr) ==
        Let( C_compile_expr(c, expr.right), LAMBDA r :
       IF expr.operator = "MINUS" THEN C_emit_byte(r, OP_NEGATE)
       ELSE IF expr.operator = "BANG" THEN C_emit_byte(r, OP_NOT)
       ELSE r)

C_visit_binary_expr(c, expr) ==
        Let( C_compile_expr(C_compile_expr(c, expr.left), expr.right), LAMBDA r :
       IF r.crashed THEN r
       ELSE IF expr.operator \in DOMAIN op_map THEN C_emit_byte(r, op_map[expr.operator])
       ELSE [r EXCEPT !.crashed = TRUE])

C_visit_variable_expr(c, expr) ==
        Let(   C_resolve_local(c, expr.name), LAMBDA arg :
       IF arg # -1 THEN C_emit_bytes(c, OP_GET_LOCAL, arg)
       ELSE C_emit_with_name(c, OP_GET_GLOBAL, expr.name))

C_visit_assign_expr(c, expr) ==
        Let( C_compile_expr(c, expr.value), LAMBDA v :
        Let(   C_resolve_local(v, expr.name), LAMBDA arg :
       IF arg # -1 THEN C_emit_bytes(v, OP_SET_LOCAL, arg)
       ELSE C_emit_with_name(v, OP_SET_GLOBAL, expr.name)))

C_visit_call_expr(c, expr) ==
    C_emit_bytes(C_compile_exprs(C_compile_expr(c, expr.callee), expr.arguments),
                 OP_CALL, Len(expr.arguments))

C_visit_this_expr(c, expr) ==
    IF c.type # "method" THEN C_set_error(c, "Cannot use 'this' outside of a method.")
    ELSE C_emit_bytes(c, OP_GET_LOCAL, C_resolve_local(c, expr.keyword))

C_compile_expr(c, expr) ==
    IF c.crashed THEN c
    ELSE CASE expr.k = "Literal" -> C_emit_constant(c, expr.value)
      [] expr.k = "Grouping" -> C_compile_expr(c, expr.expression)
      [] expr.k = "Unary" -> C_visit_unary_expr(c, expr)
      [] expr.k = "Binary" -> C_visit_binary_expr(c, expr)
      [] expr.k = "Variable" -> C_visit_variable_expr(c, expr)
      [] expr.k = "Assign" -> C_visit_assign_expr(c, expr)
      [] expr.k = "Call" -> C_visit_call_expr(c, expr)
      [] expr.k \in {"Logical", "GenericType"} -> c
      [] expr.k = "Get" ->
            C_emit_with_name(C_compile_expr(c, expr.object), OP_GET_PROPERTY, expr.name)
      [] expr.k = "Set" ->
            C_emit_with_name(C_compile_expr(C_compile_expr(c, expr.object), expr.value),
                             OP_SET_PROPERTY, expr.name)
      [] expr.k = "This" -> C_visit_this_expr(c, expr)
      [] expr.k = "ListLiteral" ->
            C_emit_bytes(C_compile_exprs(c, expr.elements), OP_BUILD_LIST, Len(expr.elements))
      [] expr.k = "DictLiteral" ->
            C_emit_bytes(C_compile_pairs(c, expr.keys, expr.values),
                         OP_BUILD_DICT, Len(expr.keys))
      [] expr.k = "GetSubscript" ->
            C_emit_byte(C_compile_expr(C_compile_expr(c, expr.object), expr.index),
                        OP_GET_SUBSCRIPT)
      [] expr.k = "SetSubscript" ->
            C_emit_byte(C_compile_expr(C_compile_expr(C_compile_expr(c, expr.object),
                                                      expr.index), expr.value),
                        OP_SET_SUBSCRIPT)

C_visit_var_stmt(c, stmt) ==
        Let( C_compile_expr(c, IF stmt.initializer # None THEN stmt.initializer
                               ELSE Literal(NilV)), LAMBDA i :
       IF i.scope_depth > 0 THEN C_add_local(i, stmt.name, ANY)
       ELSE C_emit_with_name(i, OP_DEFINE_GLOBAL, stmt.name))

C_visit_block_stmt(c, stmt) ==
    C_end_scope(C_compile_program(C_begin_scope(c), stmt.statements))

C_visit_if_stmt(c, stmt) ==
        Let(  C_emit_jump(C_compile_expr(c, stmt.condition), OP_JUMP_IF_FALSE), LAMBDA tj :
        Let(         tj.ret, LAMBDA then_jump :
        Let(  C_emit_jump(C_compile_stmt(C_emit_byte(tj, OP_POP), stmt.then_branch), OP_JUMP), LAMBDA ej :
        Let(         ej.ret, LAMBDA else_jump :
        Let( C_emit_byte(C_patch_jump(ej, then_jump), OP_POP), LAMBDA p :
        Let( IF stmt.else_branch # None THEN C_compile_stmt(p, stmt.else_branch) ELSE p, LAMBDA e :
       C_patch_jump(e, else_jump)))))))

C_visit_while_stmt(c, stmt) ==
        Let(          Len(c.code), LAMBDA loop_start :
        Let(  C_emit_jump(C_compile_expr(c, stmt.condition), OP_JUMP_IF_FALSE), LAMBDA xj :
        Let(         xj.ret, LAMBDA exit_jump :
        Let( C_compile_stmt(C_emit_byte(xj, OP_POP), stmt.body), LAMBDA b :
       C_emit_byte(C_patch_jump(C_emit_loop(b, loop_start), exit_jump), OP_POP)))))

\* _end_compiler(): the finished function object, or the crashed compiler
C_end_compiler(c) ==
        Let( C_emit_return(c), LAMBDA e :
       OrionCompiledFunction(e.arity, e.code, e.constants, e.name))

C_visit_function_stmt(c, stmt) ==
        Let(        Compiler(stmt, "function"), LAMBDA compiler :
        Let(            C_end_compiler(compiler), LAMBDA function_obj :
       IF compiler.crashed \/ C_emit_return(compiler).crashed THEN [c EXCEPT !.crashed = TRUE]
       ELSE     Let( C_emit_constant(c, function_obj), LAMBDA e :
               IF e.scope_depth > 0 THEN C_add_local(e, stmt.name, FUNCTION)
               ELSE C_emit_with_name(e, OP_DEFINE_GLOBAL, stmt.name))))

C_visit_return_stmt(c, stmt) ==
    IF c.type = "initializer"
    THEN C_emit_return(IF stmt.value # None
                       THEN C_set_error(c, "Cannot return a value from an initializer.")
                       ELSE c)
    ELSE IF stmt.value # None THEN C_emit_byte(C_compile_expr(c, stmt.value), OP_RETURN)
    ELSE C_emit_return(c)

\* the methods dict of a component, as an association list; ret carries it
C_compile_methods(c, body, methods) ==
    IF c.crashed THEN c
    ELSE IF body = <<>> THEN [c EXCEPT !.ret = methods]
    ELSE IF Head(body).k = "Function"
         THEN     Let(        Compiler(Head(body), "method"), LAMBDA compiler :
                  Let(            C_end_compiler(compiler), LAMBDA function_obj :
                  Let(    StrV(Head(body).name), LAMBDA name :
                 IF compiler.crashed \/ C_emit_return(compiler).crashed
                 THEN [c EXCEPT !.crashed = TRUE]
                 ELSE C_compile_methods(c, Tail(body),
                          IF \E i \in DOMAIN methods : methods[i].key = name
                          THEN [i \in DOMAIN methods |->
                                  IF methods[i].key = name
                                  THEN [key |-> name, val |-> function_obj] ELSE methods[i]]
                          ELSE Append(methods, [key |-> name, val |-> function_obj])))))
    ELSE C_compile_methods(c, Tail(body), methods)

C_visit_component_stmt(c, stmt) ==
        Let(              stmt.name, LAMBDA component_name :
        Let( C_emit_with_name(c, OP_DEFINE_GLOBAL, component_name), LAMBDA d :
        Let(          SelectSeq(stmt.body, LAMBDA m : m.k = "StyleProp"), LAMBDA properties :
        Let(  C_compile_methods(d, stmt.body, <<>>), LAMBDA ms :
       IF ms.crashed THEN ms
       ELSE C_emit_with_name(
                C_emit_constant(ms, OrionComponentDef(component_name, properties, ms.ret)),
                OP_SET_GLOBAL, component_name)))))

C_visit_use_stmt(c, stmt) ==
    C_emit_with_name(C_emit_with_name(c, OP_IMPORT_NATIVE, stmt.name), OP_DEFINE_GLOBAL,
                     IF stmt.alias # None THEN stmt.alias.lexeme ELSE stmt.name)

C_compile_class_methods(c, methods) ==
    IF c.crashed \/ methods = <<>> THEN c
    ELSE     Let(        Compiler(Head(methods), "method"), LAMBDA compiler :
             Let(            C_end_compiler(compiler), LAMBDA function_obj :
             Let( C_make_constant(c, function_obj), LAMBDA m :
            IF compiler.crashed \/ C_emit_return(compiler).crashed
            THEN [c EXCEPT !.crashed = TRUE]
            ELSE C_compile_class_methods(
                     C_emit_with_name(C_emit_bytes(m, OP_CONSTANT, m.ret),
                                      OP_METHOD, Head(methods).name),
                     Tail(methods)))))

C_visit_class_stmt(c, stmt) ==
        Let( C_make_constant(c, StrV(stmt.name)), LAMBDA n :
        Let(             n.ret, LAMBDA name_constant :
       C_emit_bytes(C_compile_class_methods(C_emit_bytes(n, OP_CLASS, name_constant),
                                            stmt.methods),
                    OP_DEFINE_GLOBAL, name_constant)))

C_compile_stmt(c, stmt) ==
    IF c.crashed THEN c
    ELSE CASE stmt.k = "Expression" -> C_emit_byte(C_compile_expr(c, stmt.expression), OP_POP)
      [] stmt.k = "Var" -> C_visit_var_stmt(c, stmt)
      [] stmt.k = "Block" -> C_visit_block_stmt(c, stmt)
      [] stmt.k = "If" -> C_visit_if_stmt(c, stmt)
      [] stmt.k = "While" -> C_visit_while_stmt(c, stmt)
      [] stmt.k = "Function" -> C_visit_function_stmt(c, stmt)
      [] stmt.k = "Return" -> C_visit_return_stmt(c, stmt)
      [] stmt.k = "ComponentStmt" -> C_visit_component_stmt(c, stmt)
      [] stmt.k = "UseStmt" -> C_visit_use_stmt(c, stmt)
      [] stmt.k = "Class" -> C_visit_class_stmt(c, stmt)
      [] stmt.k \in {"StyleProp", "StateBlock", "ModuleStmt"} -> c

\* for stmt in statements: the loop over a list is the loop over its first
\* half, then over its second
C_compile_program(c, statements) ==
    IF statements = <<>> THEN c
    ELSE IF Len(statements) = 1 THEN C_compile_stmt(c, statements[1])
    ELSE     Let(          Len(statements) \div 2, LAMBDA half :
             Let( C_compile_program(c, SubSeq(statements, 1, half)), LAMBDA first :
            IF first.crashed THEN first
            ELSE C_compile_program(first, SubSeq(statements, half + 1, Len(statements)))))

RECURSIVE C_add_params(_, _)
C_add_params(c, params) ==
    IF params = <<>> THEN c
    ELSE C_add_params(C_add_local(c, Head(params), ANY), Tail(params))

\* Compiler.__init__: builds the object and compiles the body
Compiler(function_stmt, function_type) ==
        Let(    IF function_stmt.name = "init" THEN "initializer" ELSE function_type, LAMBDA type :
        Let(  [ type |-> type, locals |-> <<>>, scope_depth |-> 0, had_error |-> FALSE,
                errors |-> <<>>, arity |-> Len(function_stmt.params),
                name |-> function_stmt.name, code |-> <<>>, constants |-> <<>>,
                crashed |-> FALSE, ret |-> 0 ], LAMBDA c0 :
        Let(  IF type = "method" THEN C_add_local(c0, "this", ANY)
              ELSE C_add_local(c0, "", FUNCTION), LAMBDA c1 :
       C_compile_program(C_add_params(c1, function_stmt.params), function_stmt.body))))

\* _compile_module_source after parsing: the returned function, or None
ScriptName == "<<script>>"

compile_module_source(statements) ==
        Let(  TA_analyze_stmts(TA_init, statements), LAMBDA ta :
        Let(        Compiler(Function(ScriptName, <<>>, statements), "script"), LAMBDA compiler :
        Let( C_emit_return(compiler), LAMBDA e :
       IF ta.crashed \/ ta.had_error THEN None
       ELSE IF e.crashed \/ e.had_error THEN None
       ELSE C_end_compiler(compiler))))

(***************************************************************************)
(* Host values and their Python operators, as the VM's lambdas use them.   *)
(* bool is a subtype of int in the host; int / int is a float, kept as a   *)
(* reduced fraction.                                                       *)
(***************************************************************************)
Min(a, b) == IF a < b THEN a ELSE b

Ref(n) == [t |-> "ref", v |-> n]

\* isinstance(x, (int, float)) and isinstance(x, int)
IsNumber(x) == x.t \in {"bool", "int", "float"}
IsInt(x) == x.t \in {"bool", "int"}
IntOf(x) == IF x.t = "bool" THEN (IF x.v THEN 1 ELSE 0) ELSE x.v
Num(x) == IF x.t = "float" THEN x.v ELSE <<IntOf(x), 1>>

Ok(v) == [ok |-> TRUE, v |-> v]
Exc(name) == [ok |-> FALSE, exc |-> name]

NumResult(a, b, n, d) ==
    IF IsInt(a) /\ IsInt(b) THEN Ok(IntV(n \div d)) ELSE Ok(FloatV(n, d))

RECURSIVE Repeat(_, _)
Repeat(str, n) == IF n <= 0 THEN "" ELSE str \o Repeat(str, n - 1)

\* a == b
PyEq(a, b) ==
    IF IsNumber(a) /\ IsNumber(b) THEN Num(a)[1] * Num(b)[2] = Num(b)[1] * Num(a)[2]
    ELSE IF a.t # b.t THEN FALSE
    ELSE IF a.t = "nil" THEN TRUE
    ELSE a.v = b.v

\* a + b
PyAdd(a, b) ==
    IF IsNumber(a) /\ IsNumber(b)
    THEN NumResult(a, b, Num(a)[1] * Num(b)[2] + Num(b)[1] * Num(a)[2], Num(a)[2] * Num(b)[2])
    ELSE IF a.t = "str" /\ b.t = "str" THEN Ok(StrV(a.v \o b.v))
    ELSE Exc("TypeError")

\* a - b
PySub(a, b) ==
    IF IsNumber(a) /\ IsNumber(b)
    THEN NumResult(a, b, Num(a)[1] * Num(b)[2] - Num(b)[1] * Num(a)[2], Num(a)[2] * Num(b)[2])
    ELSE Exc("TypeError")

\* a * b: numbers multiply, a string times an int repeats
PyMul(a, b) ==
    IF IsNumber(a) /\ IsNumber(b)
    THEN NumResult(a, b, Num(a)[1] * Num(b)[1], Num(a)[2] * Num(b)[2])
    ELSE IF a.t = "str" /\ IsInt(b) THEN Ok(StrV(Repeat(a.v, IntOf(b))))
    ELSE IF IsInt(a) /\ b.t = "str" THEN Ok(StrV(Repeat(b.v, IntOf(a))))
    ELSE Exc("TypeError")

\* a / b: true division
PyDiv(a, b) ==
    IF IsNumber(a) /\ IsNumber(b)
    THEN IF Num(b)[1] = 0 THEN Exc("ZeroDivisionError")
         ELSE Ok(FloatV(Num(a)[1] * Num(b)[2], Num(a)[2] * Num(b)[1]))
    ELSE Exc("TypeError")

\* a < b; the order of two strings is left to the oracle
PyLess(a, b, oracle) ==
    IF IsNumber(a) /\ IsNumber(b)
    THEN Ok(BoolV(Num(a)[1] * Num(b)[2] < Num(b)[1] * Num(a)[2]))
    ELSE IF a.t = "str" /\ b.t = "str" THEN Ok(BoolV(a.v # b.v /\ oracle))
    ELSE Exc("TypeError")

\* a > b
PyGreater(a, b, oracle) == PyLess(b, a, oracle)

\* -a
PyNeg(a) ==
    IF a.t = "float" THEN Ok(FloatV(-a.v[1], a.v[2]))
    ELSE IF IsInt(a) THEN Ok(IntV(-IntOf(a)))
    ELSE Exc("TypeError")

\* Python slices of a list: s[:n], s[-n:], s[:-n]
PyPrefix(s, n) == SubSeq(s, 1, Min(n, Len(s)))
PyLastN(s, n) == IF n = 0 THEN s ELSE SubSeq(s, Max(1, Len(s) - n + 1), Len(s))
PyDropLastN(s, n) == IF n = 0 THEN <<>> ELSE SubSeq(s, 1, Max(0, Len(s) - n))

\* a Python dict as an association list: lookup by ==, insertion order kept,
\* the first-inserted key object kept on overwrite
DictHas(d, key) == \E i \in DOMAIN d : PyEq(d[i].key, key)
DictIndex(d, key) == CHOOSE i \in DOMAIN d : PyEq(d[i].key, key)
DictGet(d, key) == d[DictIndex(d, key)].val
DictSet(d, key, val) ==
    IF DictHas(d, key) THEN [d EXCEPT ![DictIndex(d, key)].val = val]
    ELSE Append(d, [key |-> key, val |-> val])

RECURSIVE DictUpdate(_, _)
DictUpdate(d, items) ==
    IF items = <<>> THEN d
    ELSE DictUpdate(DictSet(d, Head(items).key, Head(items).val), Tail(items))

\* heap objects (objects.py)
OrionList(elements) == [kind |-> "list", elements |-> elements]
OrionDict(pairs) == [kind |-> "dict", pairs |-> pairs]
OrionInstance(fields) == [kind |-> "instance", fields |-> fields]
OrionComponentInstance(definition, fields) ==
    [kind |-> "component_instance", definition |-> definition, fields |-> fields, dirty |-> TRUE]
OrionClass(name) == [kind |-> "class", name |-> name, methods |-> <<>>]
OrionClassInstance(klass) == [kind |-> "class_instance", klass |-> klass, fields |-> <<>>]
\* StateProxy shares its fields dict with the OrionDict it was built from
StateProxy(owner, dict) == [kind |-> "state_proxy", owner |-> owner, dict |-> dict]
OrionNativeFunction(arity, func) == [t |-> "native", v |-> [arity |-> arity, func |-> func]]
OrionBoundMethod(receiver, method) ==
    [t |-> "bound", v |-> [receiver |-> receiver, method |-> method]]

\* Python's None as a native's arity: any number of arguments
Variadic == -1

CallFrame(function, ip, slots_offset) ==
    [function |-> function, ip |-> ip, slots_offset |-> slots_offset]

OK == "OK"
RUNTIME_ERROR == "RUNTIME_ERROR"
\* not results of the source: the VM is executing; a host exception left _run
RUNNING == "RUNNING"
HOST_EXCEPTION == "HOST_EXCEPTION"
IDLE == "IDLE"

(***************************************************************************)
(* The VM (vm.py).  A machine m is one VM object together with the host's  *)
(* heap and output; the methods of VM are operators from machine to        *)
(* machine, a method's return value travelling in ret.  Once the status is *)
(* no longer RUNNING (a RuntimeError was reported or a host exception was  *)
(* raised) the rest of the instruction has no effect.                      *)
(***************************************************************************)
Live(m) == m.status = RUNNING

\* an uncaught host exception leaves _run
raise(m, exc) ==
    IF Live(m)
    THEN [m EXCEPT !.status = HOST_EXCEPTION, !.result = [t |-> "exception", v |-> exc]]
    ELSE m

\* print(...) of the VM or of a native
say(m, msg) == IF Live(m) THEN [m EXCEPT !.out = Append(@, msg)] ELSE m

\* print(f"RuntimeError: ..."); return InterpretResult.RUNTIME_ERROR, None
runtime_error(m, msg) ==
    IF Live(m) THEN [say(m, msg) EXCEPT !.status = RUNTIME_ERROR, !.result = NilV] ELSE m

RuntimeError(msg) == [kind |-> "RuntimeError", msg |-> msg]
ArityError(msg, expected, got) ==
    [kind |-> "RuntimeError", msg |-> msg, expected |-> expected, got |-> got]
IndexOutOfRange(index) ==
    [kind |-> "RuntimeError", msg |-> "List index out of range.", index |-> index]
NamedError(msg, name) == [kind |-> "RuntimeError", msg |-> msg, name |-> name]

return(m, value) == IF Live(m) THEN [m EXCEPT !.ret = value] ELSE m

push(m, value) == IF Live(m) THEN [m EXCEPT !.stack = Append(@, value)] ELSE m

pop(m) ==
    IF ~Live(m) THEN m
    ELSE IF m.stack = <<>> THEN raise(m, "IndexError")
    ELSE [m EXCEPT !.stack = SubSeq(@, 1, Len(@) - 1), !.ret = m.stack[Len(m.stack)]]

peek(m, distance) ==
    IF ~Live(m) THEN m
    ELSE IF distance >= Len(m.stack) THEN raise(m, "IndexError")
    ELSE return(m, m.stack[Len(m.stack) - distance])

\* self.stack[-1 - distance] = value
poke(m, distance, value) ==
    IF ~Live(m) THEN m
    ELSE IF distance >= Len(m.stack) THEN raise(m, "IndexError")
    ELSE [m EXCEPT !.stack[Len(m.stack) - distance] = value]

Frame(m) == m.frames[Len(m.frames)]

read_byte(m) ==
    IF ~Live(m) THEN m
    ELSE     Let(     Frame(m), LAMBDA frame :
             Let(    frame.function.v.code, LAMBDA code :
            IF frame.ip >= Len(code) THEN raise(m, "IndexError")
            ELSE [m EXCEPT !.frames[Len(m.frames)].ip = @ + 1, !.ret = At(code, frame.ip)]))

read_short(m) ==
    IF ~Live(m) THEN m
    ELSE     Let(     Frame(m), LAMBDA frame :
             Let(    frame.function.v.code, LAMBDA code :
             Let( [m EXCEPT !.frames[Len(m.frames)].ip = @ + 2], LAMBDA a :
            IF frame.ip + 1 >= Len(code) THEN raise(a, "IndexError")
            ELSE return(a, At(code, frame.ip) * 256 + At(code, frame.ip + 1)))))

read_constant(m) ==
        Let( read_byte(m), LAMBDA b :
        Let(         Frame(m).function.v.constants, LAMBDA constants :
       IF ~Live(b) THEN b
       ELSE IF b.ret >= Len(constants) THEN raise(b, "IndexError")
       ELSE return(b, At(constants, b.ret))))

\* a new host object; ret is the reference to it
alloc(m, object) ==
    IF Live(m) THEN [m EXCEPT !.heap = Append(@, object), !.ret = Ref(Len(m.heap) + 1)] ELSE m

\* the host class of a value
Kind(m, x) == IF x.t = "ref" THEN m.heap[x.v].kind ELSE x.t

\* isinstance(x, OrionInstance)
IsOrionInstance(m, x) ==
    Kind(m, x) \in {"instance", "component_instance", "class_instance", "state_proxy"}

\* instance.fields, which for a StateProxy is the dict it was built from
Fields(m, x) ==
    IF Kind(m, x) = "state_proxy" THEN m.heap[m.heap[x.v].dict.v].pairs ELSE m.heap[x.v].fields

is_falsey(value) == value.t = "nil" \/ (value.t = "bool" /\ ~value.v)

\* _binary_op(op_func): op is the lambda's result on (a, b)
binary_op(m, op(_, _)) ==
        Let(  pop(m), LAMBDA pb :
        Let(  pop(pb), LAMBDA pa :
        Let( op(pa.ret, pb.ret), LAMBDA r :
       IF ~Live(pa) THEN pa
       ELSE IF r.ok THEN push(pa, r.v)
       ELSE raise(pa, r.exc))))

(***************************************************************************)
(* The natives of VM.__init__ kept by the model: clock, print, slice and    *)
(* the module str with length.  What the host clock reads and what a slice *)
(* of a string is are inputs (the oracle).                                 *)
(***************************************************************************)
native_call(m, func, args, oracle) ==
    CASE func = "clock" -> return(m, oracle.clock)
      [] func = "print" -> return(say(m, [kind |-> "print", args |-> args]), NilV)
      [] func = "slice" ->
            IF Len(args) \notin {2, 3} THEN raise(m, "TypeError")
            ELSE IF args[1].t # "str" \/ ~IsInt(args[2]) THEN return(m, NilV)
            ELSE IF Len(args) = 3 /\ args[3].t # "nil" /\ ~IsInt(args[3])
                 THEN raise(m, "TypeError")
            ELSE return(m, oracle.slice)
      [] func = "length" ->
            IF Len(args) # 1 THEN raise(m, "TypeError")
            ELSE return(m, IF args[1].t = "str" THEN IntV(Len(args[1].v)) ELSE IntV(0))

\* the defaults of a component's declared properties
RECURSIVE PropertyDefaults(_, _)
PropertyDefaults(properties, fields) ==
    IF properties = <<>> THEN fields
    ELSE     Let(         Head(properties), LAMBDA prop_node :
             Let(             IF Len(prop_node.values) = 1 THEN prop_node.values[1].literal
                              ELSE NilV, LAMBDA default_value :
            PropertyDefaults(Tail(properties),
                             DictSet(fields, StrV(prop_node.name), default_value))))

\* _call_value: ret is its boolean result
call_value(m, callee, arg_count, oracle) ==
    IF ~Live(m) THEN m
    ELSE IF callee.t = "native"
    THEN IF callee.v.arity # Variadic /\ arg_count # callee.v.arity
         THEN return(say(m, ArityError("Expected arguments but got", {callee.v.arity}, arg_count)),
                     FALSE)
         ELSE     Let(    IF arg_count > 0 THEN PyLastN(m.stack, arg_count) ELSE <<>>, LAMBDA args :
                  Let(   [m EXCEPT !.stack = PyDropLastN(m.stack, arg_count + 1)], LAMBDA cut :
                  Let( native_call(cut, callee.v.func, args, oracle), LAMBDA r :
                 return(push(r, r.ret), TRUE))))
    ELSE IF callee.t = "fn"
    THEN IF arg_count # callee.v.arity
         THEN return(say(m, ArityError("Expected arguments but got", {callee.v.arity}, arg_count)),
                     FALSE)
         ELSE return([m EXCEPT !.frames =
                         Append(@, CallFrame(callee, 0, Len(m.stack) - arg_count - 1))], TRUE)
    ELSE IF Kind(m, callee) = "class"
    THEN     Let( alloc(m, OrionClassInstance(callee)), LAMBDA a :
             Let( poke(a, arg_count, a.ret), LAMBDA i :
             Let(       m.heap[callee.v].methods, LAMBDA methods :
            IF DictHas(methods, StrV("init"))
            THEN     Let(           DictGet(methods, StrV("init")), LAMBDA initializer :
                    IF arg_count # initializer.v.arity
                    THEN return(say(i, ArityError("Expected arguments for init but got",
                                                  {initializer.v.arity}, arg_count)), FALSE)
                    ELSE return([i EXCEPT !.frames =
                                    Append(@, CallFrame(initializer, 0,
                                                        Len(i.stack) - arg_count - 1))], TRUE))
            ELSE IF arg_count # 0
                 THEN return(say(i, ArityError("Expected arguments but got", {0}, arg_count)),
                             FALSE)
            ELSE return(i, TRUE))))
    ELSE IF callee.t = "cdef"
    THEN IF arg_count > 1
         THEN return(say(m, ArityError("constructor takes 0 or 1 arguments, but got",
                                       {0, 1}, arg_count)), FALSE)
         ELSE     Let(         m.stack[Len(m.stack)], LAMBDA props_arg :
                  Let(   arg_count = 1 /\ Kind(m, props_arg) # "dict", LAMBDA bad :
                  Let(     IF arg_count = 1 /\ ~bad THEN m.heap[props_arg.v].pairs ELSE <<>>, LAMBDA props :
                  Let(  IF arg_count = 1 THEN pop(m) ELSE m, LAMBDA p1 :
                  Let(  pop(p1), LAMBDA p2 :
                  Let(          p2.ret, LAMBDA definition :
                  Let(      DictUpdate(PropertyDefaults(definition.v.properties, <<>>), props), LAMBDA fields :
                  Let( alloc(p2, OrionComponentInstance(definition, fields)), LAMBDA a :
                  Let(        a.ret, LAMBDA instance :
                  Let(     IF DictHas(fields, StrV("state")) THEN DictGet(fields, StrV("state"))
                           ELSE NilV, LAMBDA state :
                  Let( IF Kind(a, state) = "dict"
                       THEN     Let( alloc(a, StateProxy(instance, state)), LAMBDA b :
                               [b EXCEPT !.heap[instance.v].fields =
                                             DictSet(@, StrV("state"), b.ret)])
                       ELSE a, LAMBDA s :
                 IF bad
                 THEN return(say(m, RuntimeError(
                                 "Component constructor argument must be a dictionary.")), FALSE)
                 ELSE return(push(s, instance), TRUE))))))))))))
    ELSE IF callee.t = "bound"
    THEN IF arg_count # callee.v.method.v.arity
         THEN return(say(m, ArityError("Method expected arguments but got",
                                       {callee.v.method.v.arity}, arg_count)), FALSE)
         ELSE     Let( poke(m, arg_count, callee.v.receiver), LAMBDA r :
                 return([r EXCEPT !.frames =
                            Append(@, CallFrame(callee.v.method, 0,
                                                Len(r.stack) - arg_count - 1))], TRUE))
    ELSE return(say(m, RuntimeError("Can only call functions and components.")), FALSE)

(***************************************************************************)
(* The instructions of VM._run, each applied to the machine after its      *)
(* opcode byte was read.                                                   *)
(***************************************************************************)
Exec_RETURN(m) ==
        Let(     Frame(m), LAMBDA frame :
        Let( pop(m), LAMBDA p :
        Let(      p.ret, LAMBDA result :
        Let(      SubSeq(p.frames, 1, Len(p.frames) - 1), LAMBDA frames :
       IF ~Live(p) THEN p
       ELSE IF frames = <<>> THEN [p EXCEPT !.frames = frames, !.status = OK, !.result = result]
       ELSE push([p EXCEPT !.frames = frames,
                           !.stack = PyPrefix(p.stack, frame.slots_offset)], result)))))

\* OP_CALL that goes on whatever _call_value returned
Exec_CALL_unchecked(m, oracle) ==
    Let(read_byte(m), LAMBDA a :
    Let(peek(a, a.ret), LAMBDA k :
    call_value(k, k.ret, a.ret, oracle)))

Exec_CALL(m, oracle) ==
        Let( read_byte(m), LAMBDA a :
        Let(         a.ret, LAMBDA arg_count :
        Let( peek(a, arg_count), LAMBDA k :
        Let( call_value(k, k.ret, arg_count, oracle), LAMBDA c :
       IF ~Live(c) THEN c
       ELSE IF ~c.ret THEN [c EXCEPT !.status = RUNTIME_ERROR, !.result = NilV]
       ELSE c))))

Exec_CONSTANT(m) ==     Let( read_constant(m), LAMBDA c :    push(c, c.ret))

Exec_NEGATE(m) ==
        Let( pop(m), LAMBDA p :
        Let( PyNeg(p.ret), LAMBDA r :
       IF ~Live(p) THEN p
       ELSE IF r.ok THEN push(p, r.v)
       ELSE raise(p, r.exc)))

Exec_ADD(m) == binary_op(m, PyAdd)
Exec_SUBTRACT(m) == binary_op(m, PySub)
Exec_MULTIPLY(m) == binary_op(m, PyMul)
Exec_DIVIDE(m) == binary_op(m, PyDiv)
Exec_EQUAL(m) == binary_op(m, LAMBDA a, b : Ok(BoolV(PyEq(a, b))))
Exec_GREATER(m, oracle) == binary_op(m, LAMBDA a, b : PyGreater(a, b, oracle))
Exec_LESS(m, oracle) == binary_op(m, LAMBDA a, b : PyLess(a, b, oracle))

\* self.push(not self._is_falsey(self.pop()))
Exec_NOT(m) ==     Let( pop(m), LAMBDA p :    IF ~Live(p) THEN p ELSE push(p, BoolV(~is_falsey(p.ret))))

Exec_TRUE(m) == push(m, BoolV(TRUE))
Exec_FALSE(m) == push(m, BoolV(FALSE))
Exec_NIL(m) == push(m, NilV)
Exec_POP(m) == pop(m)

Exec_DEFINE_GLOBAL(m) ==
        Let( read_constant(m), LAMBDA n :
        Let(    n.ret.v, LAMBDA name :
        Let( peek(n, 0), LAMBDA k :
       IF ~Live(k) THEN k
       ELSE pop([k EXCEPT !.globals = (name :> k.ret) @@ @]))))

Exec_GET_GLOBAL(m) ==
        Let( read_constant(m), LAMBDA n :
        Let(    n.ret.v, LAMBDA name :
       IF ~Live(n) THEN n
       ELSE IF name \notin DOMAIN n.globals
            THEN runtime_error(n, NamedError("Undefined variable", name))
       ELSE push(n, n.globals[name])))

Exec_SET_GLOBAL(m) ==
        Let( read_constant(m), LAMBDA n :
        Let(    n.ret.v, LAMBDA name :
        Let( peek(n, 0), LAMBDA k :
       IF ~Live(n) THEN n
       ELSE IF name \notin DOMAIN n.globals
            THEN runtime_error(n, NamedError("Undefined variable", name))
       ELSE IF ~Live(k) THEN k
       ELSE [k EXCEPT !.globals = (name :> k.ret) @@ @])))

Exec_GET_LOCAL(m) ==
        Let( read_byte(m), LAMBDA s :
        Let(     Frame(m).slots_offset + s.ret, LAMBDA index :
       IF ~Live(s) THEN s
       ELSE IF index >= Len(s.stack) THEN raise(s, "IndexError")
       ELSE push(s, At(s.stack, index))))

Exec_SET_LOCAL(m) ==
        Let( read_byte(m), LAMBDA s :
        Let(     Frame(m).slots_offset + s.ret, LAMBDA index :
        Let( peek(s, 0), LAMBDA k :
       IF ~Live(k) THEN k
       ELSE IF index >= Len(k.stack) THEN raise(k, "IndexError")
       ELSE [k EXCEPT !.stack[index + 1] = k.ret])))

Exec_JUMP(m) ==
        Let( read_short(m), LAMBDA o :
       IF ~Live(o) THEN o ELSE [o EXCEPT !.frames[Len(o.frames)].ip = @ + o.ret])

\* a plausible slip: the jump taken on a truthy condition
Exec_JUMP_IF_FALSE_truthy(m) ==
        Let( read_short(m), LAMBDA o :
        Let( peek(o, 0), LAMBDA k :
       IF ~Live(k) THEN k
       ELSE IF ~is_falsey(k.ret) THEN [k EXCEPT !.frames[Len(k.frames)].ip = @ + o.ret]
       ELSE k))

Exec_JUMP_IF_FALSE(m) ==
        Let( read_short(m), LAMBDA o :
        Let( peek(o, 0), LAMBDA k :
       IF ~Live(k) THEN k
       ELSE IF is_falsey(k.ret) THEN [k EXCEPT !.frames[Len(k.frames)].ip = @ + o.ret]
       ELSE k))

Exec_LOOP(m) ==
        Let( read_short(m), LAMBDA o :
       IF ~Live(o) THEN o ELSE [o EXCEPT !.frames[Len(o.frames)].ip = @ - o.ret])

\* pop the instance, push the value
Replace(m, value) == push(pop(m), value)

\* a plausible slip: the methods looked up before the fields
Exec_GET_PROPERTY_methods_first(m) ==
        Let( peek(m, 0), LAMBDA k :
        Let(        k.ret, LAMBDA instance :
        Let( read_constant(k), LAMBDA n :
        Let(    n.ret, LAMBDA name :
        Let(    Kind(n, instance), LAMBDA kind :
       IF ~Live(n) THEN n
       ELSE IF kind \in {"class_instance", "component_instance"}
       THEN     Let(      n.heap[instance.v].fields, LAMBDA fields :
                Let(       IF kind = "class_instance"
                           THEN n.heap[n.heap[instance.v].klass.v].methods
                           ELSE n.heap[instance.v].definition.v.methods, LAMBDA methods :
               IF DictHas(methods, name)
               THEN Replace(n, OrionBoundMethod(instance, DictGet(methods, name)))
               ELSE IF DictHas(fields, name) THEN Replace(n, DictGet(fields, name))
               ELSE runtime_error(n, NamedError("Undefined property", name.v))))
       ELSE IF kind = "list"
       THEN IF name = StrV("length")
            THEN Replace(n, IntV(Len(n.heap[instance.v].elements)))
            ELSE runtime_error(n, NamedError("Type 'list' has no property", name.v))
       ELSE IF ~IsOrionInstance(n, instance)
       THEN runtime_error(n, RuntimeError("Only instances and lists have properties."))
       ELSE Replace(n, IF DictHas(Fields(n, instance), name)
                       THEN DictGet(Fields(n, instance), name) ELSE NilV))))))

Exec_GET_PROPERTY(m) ==
        Let( peek(m, 0), LAMBDA k :
        Let(        k.ret, LAMBDA instance :
        Let( read_constant(k), LAMBDA n :
        Let(    n.ret, LAMBDA name :
        Let(    Kind(n, instance), LAMBDA kind :
       IF ~Live(n) THEN n
       ELSE IF kind \in {"class_instance", "component_instance"}
       THEN     Let(      n.heap[instance.v].fields, LAMBDA fields :
                Let(       IF kind = "class_instance"
                           THEN n.heap[n.heap[instance.v].klass.v].methods
                           ELSE n.heap[instance.v].definition.v.methods, LAMBDA methods :
               IF DictHas(fields, name) THEN Replace(n, DictGet(fields, name))
               ELSE IF DictHas(methods, name)
                    THEN Replace(n, OrionBoundMethod(instance, DictGet(methods, name)))
               ELSE runtime_error(n, NamedError("Undefined property", name.v))))
       ELSE IF kind = "list"
       THEN IF name = StrV("length")
            THEN Replace(n, IntV(Len(n.heap[instance.v].elements)))
            ELSE runtime_error(n, NamedError("Type 'list' has no property", name.v))
       ELSE IF ~IsOrionInstance(n, instance)
       THEN runtime_error(n, RuntimeError("Only instances and lists have properties."))
       ELSE Replace(n, IF DictHas(Fields(n, instance), name)
                       THEN DictGet(Fields(n, instance), name) ELSE NilV))))))

\* a StateProxy.set that leaves its owner as it was
instance_set_unobserved(m, instance, name, value) ==
    IF Kind(m, instance) = "state_proxy"
    THEN     Let(     m.heap[instance.v], LAMBDA proxy :
            say([m EXCEPT !.heap[proxy.dict.v].pairs = DictSet(@, name, value)],
                [kind |-> "debug", msg |-> "State set, component is now dirty."]))
    ELSE [m EXCEPT !.heap[instance.v].fields = DictSet(@, name, value)]

\* instance.set(name, value); StateProxy.set also marks its owner dirty
instance_set(m, instance, name, value) ==
    IF Kind(m, instance) = "state_proxy"
    THEN     Let(     m.heap[instance.v], LAMBDA proxy :
            say([m EXCEPT !.heap[proxy.dict.v].pairs = DictSet(@, name, value),
                          !.heap[proxy.owner.v].dirty = TRUE],
                [kind |-> "debug", msg |-> "State set, component is now dirty."]))
    ELSE [m EXCEPT !.heap[instance.v].fields = DictSet(@, name, value)]

Exec_SET_PROPERTY(m) ==
        Let( peek(m, 1), LAMBDA i :
        Let(        i.ret, LAMBDA instance :
       IF ~Live(i) THEN i
       ELSE IF Kind(i, instance) = "list"
       THEN runtime_error(i, RuntimeError("Cannot set properties on a list."))
       ELSE IF ~IsOrionInstance(i, instance)
       THEN runtime_error(i, RuntimeError("Only instances have properties."))
       ELSE     Let( read_constant(i), LAMBDA n :
                Let( peek(n, 0), LAMBDA v :
               IF ~Live(v) THEN v
               ELSE push(pop(pop(instance_set(v, instance, n.ret, v.ret))), v.ret)))))

Exec_CLASS(m) ==
        Let( read_constant(m), LAMBDA n :
        Let( alloc(n, OrionClass(n.ret.v)), LAMBDA a :
       push(a, a.ret)))

Exec_METHOD(m) ==
        Let( read_constant(m), LAMBDA n :
        Let(      peek(n, 0), LAMBDA method :
        Let(     peek(method, 1), LAMBDA klass :
       IF ~Live(klass) THEN klass
       ELSE IF Kind(klass, klass.ret) # "class" THEN raise(klass, "AttributeError")
       ELSE pop([klass EXCEPT !.heap[klass.ret.v].methods = DictSet(@, n.ret, method.ret)]))))

Exec_IMPORT_NATIVE(m) ==
        Let( read_constant(m), LAMBDA n :
        Let(           n.ret.v, LAMBDA module_name :
       IF ~Live(n) THEN n
       ELSE IF module_name \notin DOMAIN n.native_modules
            THEN runtime_error(n, NamedError("Native module not found", module_name))
       ELSE     Let( alloc(n, OrionInstance(n.native_modules[module_name])), LAMBDA a :
               push(a, a.ret))))

Exec_BUILD_LIST(m) ==
        Let( read_byte(m), LAMBDA c :
        Let(          c.ret, LAMBDA item_count :
        Let(        PyLastN(c.stack, item_count), LAMBDA elements :
       IF ~Live(c) THEN c
       ELSE     Let( alloc([c EXCEPT !.stack = PyDropLastN(c.stack, item_count)],
                           OrionList(elements)), LAMBDA a :
               push(a, a.ret)))))

\* elements[index] of Python: -n <= index < n, counted from the end when negative
ListIndexOK(elements, index) == -Len(elements) <= index /\ index < Len(elements)
ListOffset(elements, index) == IF index < 0 THEN index + Len(elements) ELSE index

\* isinstance(index, (str, int, bool, type(None)))
IsDictKey(index) == index.t \in {"str", "int", "bool", "nil"}

Exec_GET_SUBSCRIPT(m) ==
        Let(  pop(m), LAMBDA pi :
        Let(     pi.ret, LAMBDA index :
        Let(  pop(pi), LAMBDA pc :
        Let(          pc.ret, LAMBDA collection :
       IF ~Live(pc) THEN pc
       ELSE IF Kind(pc, collection) = "list"
       THEN     Let(        pc.heap[collection.v].elements, LAMBDA elements :
               IF ~IsInt(index)
               THEN runtime_error(pc, NamedError("List index must be an integer, not", index.t))
               ELSE IF ListIndexOK(elements, IntOf(index))
                    THEN push(pc, At(elements, ListOffset(elements, IntOf(index))))
               ELSE runtime_error(pc, IndexOutOfRange(index)))
       ELSE IF Kind(pc, collection) = "dict"
       THEN     Let(     pc.heap[collection.v].pairs, LAMBDA pairs :
               IF ~IsDictKey(index)
               THEN runtime_error(pc, RuntimeError("Dictionary key must be a valid hashable type."))
               ELSE push(pc, IF DictHas(pairs, index) THEN DictGet(pairs, index) ELSE NilV))
       ELSE runtime_error(pc, RuntimeError("Object is not subscriptable."))))))

Exec_SET_SUBSCRIPT(m) ==
        Let(  pop(m), LAMBDA pv :
        Let(     pv.ret, LAMBDA value :
        Let(  pop(pv), LAMBDA pi :
        Let(     pi.ret, LAMBDA index :
        Let(  pop(pi), LAMBDA pc :
        Let(          pc.ret, LAMBDA collection :
       IF ~Live(pc) THEN pc
       ELSE IF Kind(pc, collection) = "list"
       THEN     Let(        pc.heap[collection.v].elements, LAMBDA elements :
               IF ~IsInt(index)
               THEN runtime_error(pc, RuntimeError("List index must be an integer."))
               ELSE IF ListIndexOK(elements, IntOf(index))
                    THEN push([pc EXCEPT !.heap[collection.v].elements[
                                             ListOffset(elements, IntOf(index)) + 1] = value],
                              value)
               ELSE runtime_error(pc, IndexOutOfRange(index)))
       ELSE IF Kind(pc, collection) = "dict"
       THEN IF ~IsDictKey(index)
            THEN runtime_error(pc, RuntimeError("Dictionary key must be a valid hashable type."))
            ELSE push([pc EXCEPT !.heap[collection.v].pairs = DictSet(@, index, value)], value)
       ELSE runtime_error(pc, RuntimeError("Object is not subscriptable."))))))))

\* for _ in range(pair_count): value = pop(); key = pop(); pairs[key] = value
RECURSIVE PopPairs(_, _, _)
PopPairs(m, pair_count, pairs) ==
    IF pair_count = 0 \/ ~Live(m) THEN return(m, pairs)
    ELSE     Let(  pop(m), LAMBDA pv :
             Let(  pop(pv), LAMBDA pk :
            PopPairs(pk, pair_count - 1, DictSet(pairs, pk.ret, pv.ret))))

Exec_BUILD_DICT(m) ==
        Let( read_byte(m), LAMBDA c :
        Let( PopPairs(c, c.ret, <<>>), LAMBDA p :
        Let( alloc(p, OrionDict(p.ret)), LAMBDA a :
       push(a, a.ret))))

(***************************************************************************)
(* Orion programs, as the ASTs the parser builds for them.  A program is   *)
(* named by <<family, a, b, c>>.                                           *)
(***************************************************************************)
IntLit(n) == IF n < 0 THEN Unary("MINUS", Literal(IntV(-n))) ELSE Literal(IntV(n))
Str(s) == Literal(StrV(s))
True == Literal(BoolV(TRUE))
CallNamed(name, arguments) == Call(Variable(name), arguments)
PrintStmt(s) == Expression(CallNamed("print", <<Str(s)>>))

\* function fib(n) { if (n < 2) { return n; } return fib(n - 2) + fib(n - 1); } return fib(N);
FibProgram(n) ==
    << Function("fib", <<"n">>,
          << If(Binary(Variable("n"), "LESS", IntLit(2)), Block(<<Return(Variable("n"))>>), None),
             Return(Binary(CallNamed("fib", <<Binary(Variable("n"), "MINUS", IntLit(2))>>), "PLUS",
                           CallNamed("fib", <<Binary(Variable("n"), "MINUS", IntLit(1))>>))) >>),
       Return(CallNamed("fib", <<IntLit(n)>>)) >>

BinaryOps == <<"PLUS", "MINUS", "STAR", "SLASH", "GREATER", "LESS", "EQUAL_EQUAL">>
UnaryOps == <<"MINUS", "BANG">>

\* an operand of every host kind; n is a global declared without initializer (nil)
Operands ==
    << IntLit(6), IntLit(0), Str("ab"), True, Variable("n"), Literal(FloatV(3, 2)),
       ListLiteral(<<IntLit(1)>>), Literal(BoolV(FALSE)) >>

\* var n; function f(a, b) { return a OP b; } return f(X, Y);
BinaryProgram(op, x, y) ==
    << Var("n", None, None),
       Function("f", <<"a", "b">>,
          << Return(Binary(Variable("a"), BinaryOps[op], Variable("b"))) >>),
       Return(CallNamed("f", <<Operands[x], Operands[y]>>)) >>

\* var n; function f(a) { return OP a; } return f(X);
UnaryProgram(op, x) ==
    << Var("n", None, None),
       Function("f", <<"a">>, << Return(Unary(UnaryOps[op], Variable("a"))) >>),
       Return(CallNamed("f", <<Operands[x]>>)) >>

ShadowPrograms ==
    << \* var a = "o"; { var a = "i"; a = "j"; } return a;
       << Var("a", None, Str("o")),
          Block(<< Var("a", None, Str("i")), Expression(Assign("a", Str("j"))) >>),
          Return(Variable("a")) >>,
       \* var a = "ga"; var b = "gb"; { var a = "ia"; b = a; } return a + b;
       << Var("a", None, Str("ga")), Var("b", None, Str("gb")),
          Block(<< Var("a", None, Str("ia")), Expression(Assign("b", Variable("a"))) >>),
          Return(Binary(Variable("a"), "PLUS", Variable("b"))) >>,
       \* function f() { { var a = 1; { var a = 2; a = 3; } return a; } } return f();
       << Function("f", <<>>,
             << Block(<< Var("a", None, IntLit(1)),
                         Block(<< Var("a", None, IntLit(2)),
                                  Expression(Assign("a", IntLit(3))) >>),
                         Return(Variable("a")) >>) >>),
          Return(CallNamed("f", <<>>)) >>,
       \* function f() { { var a = 1; { var a = true and true; a = false; } return a; } }
       \* return f();
       << Function("f", <<>>,
             << Block(<< Var("a", None, IntLit(1)),
                         Block(<< Var("a", None, Logical(True, "AND", True)),
                                  Expression(Assign("a", Literal(BoolV(FALSE)))) >>),
                         Return(Variable("a")) >>) >>),
          Return(CallNamed("f", <<>>)) >>,
       \* { var a = 1; { var b = 2; a = 5; } return a; }
       << Block(<< Var("a", None, IntLit(1)),
                   Block(<< Var("b", None, IntLit(2)), Expression(Assign("a", IntLit(5))) >>),
                   Return(Variable("a")) >>) >>,
       \* { var a = 1; { var t = a; var a = 2; a = t + a; } return a; }
       << Block(<< Var("a", None, IntLit(1)),
                   Block(<< Var("t", None, Variable("a")), Var("a", None, IntLit(2)),
                            Expression(Assign("a", Binary(Variable("t"), "PLUS",
                                                          Variable("a")))) >>),
                   Return(Variable("a")) >>) >> >>

Callees == <<"native", "fn", "class_init", "class", "cdef", "bound">>

MaxArgs == 2

\* argc arguments: 1, 2, ... or, when dictFirst, an empty dict first
Args(argc, dictFirst) ==
    [i \in 1..argc |-> IF i = 1 /\ dictFirst = 1 THEN DictLiteral(<<>>, <<>>) ELSE IntLit(i)]

\* one callee of each kind, whose code prints "ran", called with argc arguments
CallProgram(kind, argc, dictFirst) ==
        Let(    << PrintStmt("ran"), Return(IntLit(7)) >>, LAMBDA body :
        Let(    Args(argc, dictFirst), LAMBDA args :
        Let( ComponentStmt("B", << StyleProp("w", <<Lexer_number("1", IntV(1))>>),
                                   Function("m", <<"a">>, body) >>), LAMBDA B :
       CASE Callees[kind] = "native" -> << Return(CallNamed("clock", args)) >>
         [] Callees[kind] = "fn" ->
               << Function("f", <<"a">>, body), Return(CallNamed("f", args)) >>
         [] Callees[kind] = "class_init" ->
               << ClassStmt("K", << Function("init", <<"a">>, <<PrintStmt("ran")>>) >>),
                  Return(CallNamed("K", args)) >>
         [] Callees[kind] = "class" ->
               << ClassStmt("K", << Function("m", <<"a">>, body) >>),
                  Return(CallNamed("K", args)) >>
         [] Callees[kind] = "cdef" -> << B, Return(CallNamed("B", args)) >>
         [] Callees[kind] = "bound" ->
               << B, Var("b", None, CallNamed("B", <<>>)),
                  Return(Call(Get(Variable("b"), "m"), args)) >>)))

\* the style properties of component Button, as the parser collects them:
\* text: "default"; width: 100; border: 1 solid; color: red;
\* and, in the second and third set, enabled: true;  /  enabled: false;
ButtonProps ==
        Let( << StyleProp("text", <<Lexer_string("default")>>),
                StyleProp("width", <<Lexer_number("100", IntV(100))>>),
                StyleProp("border", <<Lexer_number("1", IntV(1)), Lexer_identifier("solid")>>),
                StyleProp("color", <<Lexer_identifier("red")>>) >>, LAMBDA plain :
       << plain,
          Append(plain, StyleProp("enabled", <<Lexer_identifier("true")>>)),
          Append(plain, StyleProp("enabled", <<Lexer_identifier("false")>>)) >>)

\* the argument lists of Button(...)
ButtonArgs ==
    << <<>>,
       << DictLiteral(<<>>, <<>>) >>,
       << DictLiteral(<<Str("width"), Str("extra")>>, <<IntLit(5), Str("x")>>) >>,
       << IntLit(1) >>,
       << DictLiteral(<<>>, <<>>), IntLit(1) >>,
       << IntLit(1), IntLit(2) >> >>

\* component Button { PROPS }  return Button(ARGS);
ComponentProgram(props, args) ==
    << ComponentStmt("Button", ButtonProps[props]),
       Return(CallNamed("Button", ButtonArgs[args])) >>

PropertyNames == <<"m", "n", "zz">>

\* component C { m: 1; function m() { return 2; } function n() { return 3; } }
\* function g(o) { return o.NAME; }   return g(C());
\* or, with a class instance that was given a field m:
\* class K { m() { return 2; } n() { return 3; } }  var k = K(); k.m = 1;
\* function g(o) { return o.NAME; }   return g(k);
PropertyProgram(kind, name) ==
        Let( << Function("m", <<>>, <<Return(IntLit(2))>>),
                Function("n", <<>>, <<Return(IntLit(3))>>) >>, LAMBDA methods :
        Let( Function("g", <<"o">>, <<Return(Get(Variable("o"), PropertyNames[name]))>>), LAMBDA g :
       IF kind = 1
       THEN << ComponentStmt("C", <<StyleProp("m", <<Lexer_number("1", IntV(1))>>)>> \o methods),
               g,
               Return(CallNamed("g", <<CallNamed("C", <<>>)>>)) >>
       ELSE << ClassStmt("K", methods),
               Var("k", None, CallNamed("K", <<>>)),
               Expression(SetExpr(Variable("k"), "m", IntLit(1))),
               g,
               Return(CallNamed("g", <<Variable("k")>>)) >>))

MaxListLen == 2
MaxIndex == 3

\* var l = [10, 20, ...]; return l[I];    or    var l = [...]; l[I] = 99; return l;
ListProgram(n, i, mode) ==
    << Var("l", None, ListLiteral([j \in 1..n |-> IntLit(10 * j)])),
       IF mode = 0 THEN Return(GetSubscript(Variable("l"), IntLit(i)))
       ELSE Expression(SetSubscript(Variable("l"), IntLit(i), IntLit(99))),
       Return(Variable("l")) >>

DictKeys ==
    << Str("a"), Str("b"), IntLit(1), True, Variable("n"), Literal(FloatV(3, 2)), IntLit(0) >>

\* var n; var d = {"a": 1}; function r(d, j) { return d[j]; }
\* function w(d, k, j) { d[k] = 7; return d[j]; }   return r(d, J);  or  return w(d, K, J);
DictProgram(mode, k, j) ==
    << Var("n", None, None),
       Var("d", None, DictLiteral(<<Str("a")>>, <<IntLit(1)>>)),
       Function("r", <<"d", "j">>, <<Return(GetSubscript(Variable("d"), Variable("j")))>>),
       Function("w", <<"d", "k", "j">>,
          << Expression(SetSubscript(Variable("d"), Variable("k"), IntLit(7))),
             Return(GetSubscript(Variable("d"), Variable("j"))) >>),
       IF mode = 0 THEN Return(CallNamed("r", <<Variable("d"), DictKeys[j]>>))
       ELSE Return(CallNamed("w", <<Variable("d"), DictKeys[k], DictKeys[j]>>)) >>

MiscPrograms ==
    << \* var i = 0; var total = 0; while (i < 3) { total = total + i; i = i + 1; } return total;
       << Var("i", None, IntLit(0)), Var("total", None, IntLit(0)),
          While(Binary(Variable("i"), "LESS", IntLit(3)),
                Block(<< Expression(Assign("total", Binary(Variable("total"), "PLUS",
                                                           Variable("i")))),
                         Expression(Assign("i", Binary(Variable("i"), "PLUS", IntLit(1)))) >>)),
          Return(Variable("total")) >>,
       \* use str; return str.length("abc");
       << UseStmt("str", None),
          Return(Call(Get(Variable("str"), "length"), <<Str("abc")>>)) >>,
       \* function f() { if (true and true) { } if (true and true) { } return 1; }
       \* var r = f(); return r;
       << Function("f", <<>>,
             << If(Logical(True, "AND", True), Block(<<>>), None),
                If(Logical(True, "AND", True), Block(<<>>), None),
                Return(IntLit(1)) >>),
          Var("r", None, CallNamed("f", <<>>)),
          Return(Variable("r")) >>,
       \* var x = 10; if (x > 5) { x = 20; } else { x = 0; } return !(x == 20);
       << Var("x", None, IntLit(10)),
          If(Binary(Variable("x"), "GREATER", IntLit(5)),
             Block(<<Expression(Assign("x", IntLit(20)))>>),
             Block(<<Expression(Assign("x", IntLit(0)))>>)),
          Return(Unary("BANG", Grouping(Binary(Variable("x"), "EQUAL_EQUAL", IntLit(20))))) >>,
       \* component C { text: "t"; }
       \* function s(c) { c.state.n = 1; c.text = "u"; return c.state.n; }
       \* return s(C({"state": {"n": 0}}));
       << ComponentStmt("C", << StyleProp("text", <<Lexer_string("t")>>) >>),
          Function("s", <<"c">>,
             << Expression(SetExpr(Get(Variable("c"), "state"), "n", IntLit(1))),
                Expression(SetExpr(Variable("c"), "text", Str("u"))),
                Return(Get(Get(Variable("c"), "state"), "n")) >>),
          Return(CallNamed("s", <<CallNamed("C", <<DictLiteral(<<Str("state")>>,
                               <<DictLiteral(<<Str("n")>>, <<IntLit(0)>>)>>)>>)>>)) >>,
       \* function f(a, b) { return a + b; } function g(x) { return f(x, 1) + f(2, x); }
       \* return g(3) + g(4);
       << Function("f", <<"a", "b">>, <<Return(Binary(Variable("a"), "PLUS", Variable("b")))>>),
          Function("g", <<"x">>,
             << Return(Binary(CallNamed("f", <<Variable("x"), IntLit(1)>>), "PLUS",
                              CallNamed("f", <<IntLit(2), Variable("x")>>))) >>),
          Return(Binary(CallNamed("g", <<IntLit(3)>>), "PLUS", CallNamed("g", <<IntLit(4)>>))) >> >>

\* the programs an embedder session loads one after the other
AppPrograms ==
    << \* var fs = 5;
       \* component Main { count: 0;
       \*   function onClick() { this.count = this.count + 1; return this.count; }
       \*   function boom() { clock(1); return 7; }
       \*   function onKey(e) { return e; } }
       \* var App = Main();
       << Var("fs", None, IntLit(5)),
          ComponentStmt("Main",
             << StyleProp("count", <<Lexer_number("0", IntV(0))>>),
                Function("onClick", <<>>,
                   << Expression(SetExpr(This, "count",
                                         Binary(Get(This, "count"), "PLUS", IntLit(1)))),
                      Return(Get(This, "count")) >>),
                Function("boom", <<>>,
                   << Expression(CallNamed("clock", <<IntLit(1)>>)), Return(IntLit(7)) >>),
                Function("onKey", <<"e">>, <<Return(Variable("e"))>>) >>),
          Var("App", None, CallNamed("Main", <<>>)) >>,
       \* return fs;
       << Return(Variable("fs")) >>,
       \* var fs = 6; clock(1);
       << Var("fs", None, IntLit(6)), Expression(CallNamed("clock", <<IntLit(1)>>)) >> >>

\* var Other; var d = {"n": 0};
\* component Main { state: s;
\*   function onClick() { this.state.n = this.state.n + 1; return this.state.n; }
\*   function onKey(e) { return this.state.n; }
\*   function boom() { Other.state.n = 5; return 7; } }
\* Other = Main({"state": d}); var App = Main({"state": d});
\* with one dict for both instances when shared, else {"n": 0} in place of
\* the second d
StateProgram(shared) ==
    << Var("Other", None, None),
       Var("d", None, DictLiteral(<<Str("n")>>, <<IntLit(0)>>)),
       ComponentStmt("Main",
          << StyleProp("state", <<Lexer_identifier("s")>>),
             Function("onClick", <<>>,
                << Expression(SetExpr(Get(This, "state"), "n",
                                      Binary(Get(Get(This, "state"), "n"), "PLUS", IntLit(1)))),
                   Return(Get(Get(This, "state"), "n")) >>),
             Function("onKey", <<"e">>, <<Return(Get(Get(This, "state"), "n"))>>),
             Function("boom", <<>>,
                << Expression(SetExpr(Get(Variable("Other"), "state"), "n", IntLit(5))),
                   Return(IntLit(7)) >>) >>),
       Expression(Assign("Other", CallNamed("Main",
                     <<DictLiteral(<<Str("state")>>, <<Variable("d")>>)>>))),
       Var("App", None, CallNamed("Main",
              <<DictLiteral(<<Str("state")>>,
                            <<IF shared THEN Variable("d")
                              ELSE DictLiteral(<<Str("n")>>, <<IntLit(0)>>)>>)>>)) >>

\* [var x = 7;]  function f(n) { var x = n; if (n > 0) { f(n - 1); } return x; }
\* return f(N);
LocalProgram(n, declared) ==
    (IF declared THEN <<Var("x", None, IntLit(7))>> ELSE <<>>) \o
    << Function("f", <<"n">>,
          << Var("x", None, Variable("n")),
             If(Binary(Variable("n"), "GREATER", IntLit(0)),
                Block(<<Expression(CallNamed("f", <<Binary(Variable("n"), "MINUS", IntLit(1))>>))>>),
                None),
             Return(Variable("x")) >>),
       Return(CallNamed("f", <<IntLit(n)>>)) >>

\* [function g(n) { return 7; }]
\* { function g(n) { if (n > 0) { return 1 + g(n - 1); } return 0; } return g(N); }
NestedProgram(n, declared) ==
    (IF declared THEN <<Function("g", <<"n">>, <<Return(IntLit(7))>>)>> ELSE <<>>) \o
    << Block(<< Function("g", <<"n">>,
                   << If(Binary(Variable("n"), "GREATER", IntLit(0)),
                         Block(<<Return(Binary(IntLit(1), "PLUS",
                                  CallNamed("g", <<Binary(Variable("n"), "MINUS", IntLit(1))>>)))>>),
                         None),
                      Return(IntLit(0)) >>),
                Return(CallNamed("g", <<IntLit(n)>>)) >>) >>

\* component C { count: 0; function NAME(n) { this.count = n; } }
\* var c = C(); c.NAME(N); return c.count;
ThisProgram(name, n) ==
    << ComponentStmt("C", << StyleProp("count", <<Lexer_number("0", IntV(0))>>),
                             Function(name, <<"n">>,
                                <<Expression(SetExpr(This, "count", Variable("n")))>>) >>),
       Var("c", None, CallNamed("C", <<>>)),
       Expression(Call(Get(Variable("c"), name), <<IntLit(n)>>)),
       Return(Get(Variable("c"), "count")) >>

\* the names of the method of ThisProgram
MethodNames == <<"init", "set">>

\* the arguments of f in LocalProgram
LocalArgs == 0..2

FibArgs == {3, 8}

Programs ==
    {<<"fib", n, 0, 0>> : n \in FibArgs}
    \cup {<<"binary", op, x, y>> : op \in DOMAIN BinaryOps, x \in DOMAIN Operands,
                                   y \in DOMAIN Operands}
    \cup {<<"unary", op, x, 0>> : op \in DOMAIN UnaryOps, x \in DOMAIN Operands}
    \cup {<<"shadow", i, 0, 0>> : i \in DOMAIN ShadowPrograms}
    \cup {<<"call", kind, argc, d>> : kind \in DOMAIN Callees, argc \in 0..MaxArgs,
                                      d \in 0..1}
    \cup {<<"list", n, i, mode>> : n \in 0..MaxListLen, i \in (-MaxIndex)..MaxIndex,
                                   mode \in 0..1}
    \cup {<<"dict", 0, 1, j>> : j \in DOMAIN DictKeys}
    \cup {<<"dict", 1, k, j>> : k \in DOMAIN DictKeys, j \in DOMAIN DictKeys}
    \cup {<<"misc", i, 0, 0>> : i \in DOMAIN MiscPrograms}
    \cup {<<"app", i, 0, 0>> : i \in DOMAIN AppPrograms}
    \cup {<<"property", kind, name, 0>> : kind \in 1..2, name \in DOMAIN PropertyNames}
    \cup {<<"component", props, args, 0>> : props \in DOMAIN ButtonProps,
                                            args \in DOMAIN ButtonArgs}
    \cup {<<"state", shared, 0, 0>> : shared \in 0..1}
    \cup {<<"local", n, declared, 0>> : n \in LocalArgs, declared \in 0..1}
    \cup {<<"nested", n, declared, 0>> : n \in LocalArgs, declared \in 0..1}
    \cup {<<"this", name, n, 0>> : name \in DOMAIN MethodNames, n \in LocalArgs}

AstOf(p) ==
    CASE p[1] = "fib" -> FibProgram(p[2])
      [] p[1] = "binary" -> BinaryProgram(p[2], p[3], p[4])
      [] p[1] = "unary" -> UnaryProgram(p[2], p[3])
      [] p[1] = "shadow" -> ShadowPrograms[p[2]]
      [] p[1] = "call" -> CallProgram(p[2], p[3], p[4])
      [] p[1] = "list" -> ListProgram(p[2], p[3], p[4])
      [] p[1] = "dict" -> DictProgram(p[2], p[3], p[4])
      [] p[1] = "misc" -> MiscPrograms[p[2]]
      [] p[1] = "app" -> AppPrograms[p[2]]
      [] p[1] = "component" -> ComponentProgram(p[2], p[3])
      [] p[1] = "property" -> PropertyProgram(p[2], p[3])
      [] p[1] = "state" -> StateProgram(p[2] = 1)
      [] p[1] = "local" -> LocalProgram(p[2], p[3] = 1)
      [] p[1] = "nested" -> NestedProgram(p[2], p[3] = 1)
      [] p[1] = "this" -> ThisProgram(MethodNames[p[2]], p[3])

(***************************************************************************)
(* VM instances and their embedder.  One step of the model is one          *)
(* iteration of the loop of VM._run on the VM that is running, or one call *)
(* the embedder makes on an idle VM.                                       *)
(***************************************************************************)
VMs == {"vmA", "vmB"}

\* VM.__init__
VM_init ==
    [stack |-> <<>>,
     frames |-> <<>>,
     globals |-> [name \in {"clock", "print", "slice"} |->
                    CASE name = "clock" -> OrionNativeFunction(0, "clock")
                      [] name = "print" -> OrionNativeFunction(Variadic, "print")
                      [] name = "slice" -> OrionNativeFunction(Variadic, "slice")],
     native_modules |-> [name \in {"str"} |->
                           DictSet(<<>>, StrV("length"), OrionNativeFunction(1, "length"))],
     status |-> IDLE,
     result |-> NilV]

NoProgram == <<"none", 0, 0, 0>>

\* the embedder before its first call
HostStart ==
    [calls |-> 0, active |-> "none", kind |-> "none", depth |-> 0,
     program |-> NoProgram, first |-> NoProgram, method |-> "none"]

\* the VM object v with the host's heap and output
Machine(v) ==
    [stack |-> vm[v].stack, frames |-> vm[v].frames, globals |-> vm[v].globals,
     native_modules |-> vm[v].native_modules, status |-> vm[v].status,
     result |-> vm[v].result, heap |-> heap, out |-> out, ret |-> NilV]

Object(m) ==
    [stack |-> m.stack, frames |-> m.frames, globals |-> m.globals,
     native_modules |-> m.native_modules, status |-> m.status, result |-> m.result]

\* the record kept for a frame: the operand stack below its base and the kind
\* of callee it was pushed for
Activation(below, callee) == [below |-> below, callee |-> callee]

\* the state after the machine of v has become m
Commit(v, m) ==
    /\ vm' = [vm EXCEPT ![v] = Object(m)]
    /\ heap' = m.heap
    /\ out' = m.out
    /\ callerStacks' =
          [callerStacks EXCEPT ![v] =
              IF Len(m.frames) > Len(vm[v].frames)
              THEN Append(@, Activation(PyPrefix(m.stack, Frame(m).slots_offset),
                                        Kind(Machine(v),
                                             At(vm[v].stack, Frame(m).slots_offset))))
              ELSE IF Len(m.frames) < Len(vm[v].frames)
              THEN SubSeq(@, 1, Len(m.frames))
              ELSE @]
    /\ UNCHANGED <<host, q, parsing, lexing>>
    /\ UNCHANGED taVars

\* the byte the next read_byte() of _run returns
Opcode(v) ==
        Let(     vm[v].frames[Len(vm[v].frames)], LAMBDA frame :
       At(frame.function.v.code, frame.ip))

Fetching(v, instruction) == vm[v].status = RUNNING /\ Opcode(v) = instruction

\* instruction = OpCode(read_byte())
Fetch(v) == read_byte(Machine(v))

\* what the host's clock and string slicing give a native
Oracles == {[clock |-> FloatV(3, 2), slice |-> StrV("")]}

Run_RETURN(v) == Fetching(v, OP_RETURN) /\ Commit(v, Exec_RETURN(Fetch(v)))
Run_CALL(v) ==
    Fetching(v, OP_CALL) /\ \E oracle \in Oracles : Commit(v, Exec_CALL(Fetch(v), oracle))
Run_CONSTANT(v) == Fetching(v, OP_CONSTANT) /\ Commit(v, Exec_CONSTANT(Fetch(v)))
Run_NEGATE(v) == Fetching(v, OP_NEGATE) /\ Commit(v, Exec_NEGATE(Fetch(v)))
Run_ADD(v) == Fetching(v, OP_ADD) /\ Commit(v, Exec_ADD(Fetch(v)))
Run_SUBTRACT(v) == Fetching(v, OP_SUBTRACT) /\ Commit(v, Exec_SUBTRACT(Fetch(v)))
Run_MULTIPLY(v) == Fetching(v, OP_MULTIPLY) /\ Commit(v, Exec_MULTIPLY(Fetch(v)))
Run_DIVIDE(v) == Fetching(v, OP_DIVIDE) /\ Commit(v, Exec_DIVIDE(Fetch(v)))
Run_EQUAL(v) == Fetching(v, OP_EQUAL) /\ Commit(v, Exec_EQUAL(Fetch(v)))
Run_GREATER(v) ==
    Fetching(v, OP_GREATER) /\ \E oracle \in BOOLEAN : Commit(v, Exec_GREATER(Fetch(v), oracle))
Run_LESS(v) ==
    Fetching(v, OP_LESS) /\ \E oracle \in BOOLEAN : Commit(v, Exec_LESS(Fetch(v), oracle))
Run_NOT(v) == Fetching(v, OP_NOT) /\ Commit(v, Exec_NOT(Fetch(v)))
Run_TRUE(v) == Fetching(v, OP_TRUE) /\ Commit(v, Exec_TRUE(Fetch(v)))
Run_FALSE(v) == Fetching(v, OP_FALSE) /\ Commit(v, Exec_FALSE(Fetch(v)))
Run_NIL(v) == Fetching(v, OP_NIL) /\ Commit(v, Exec_NIL(Fetch(v)))
Run_POP(v) == Fetching(v, OP_POP) /\ Commit(v, Exec_POP(Fetch(v)))
Run_DEFINE_GLOBAL(v) == Fetching(v, OP_DEFINE_GLOBAL) /\ Commit(v, Exec_DEFINE_GLOBAL(Fetch(v)))
Run_GET_GLOBAL(v) == Fetching(v, OP_GET_GLOBAL) /\ Commit(v, Exec_GET_GLOBAL(Fetch(v)))
Run_SET_GLOBAL(v) == Fetching(v, OP_SET_GLOBAL) /\ Commit(v, Exec_SET_GLOBAL(Fetch(v)))
Run_GET_LOCAL(v) == Fetching(v, OP_GET_LOCAL) /\ Commit(v, Exec_GET_LOCAL(Fetch(v)))
Run_SET_LOCAL(v) == Fetching(v, OP_SET_LOCAL) /\ Commit(v, Exec_SET_LOCAL(Fetch(v)))
Run_JUMP(v) == Fetching(v, OP_JUMP) /\ Commit(v, Exec_JUMP(Fetch(v)))
Run_JUMP_IF_FALSE(v) == Fetching(v, OP_JUMP_IF_FALSE) /\ Commit(v, Exec_JUMP_IF_FALSE(Fetch(v)))
Run_LOOP(v) == Fetching(v, OP_LOOP) /\ Commit(v, Exec_LOOP(Fetch(v)))
Run_GET_PROPERTY(v) == Fetching(v, OP_GET_PROPERTY) /\ Commit(v, Exec_GET_PROPERTY(Fetch(v)))
Run_SET_PROPERTY(v) == Fetching(v, OP_SET_PROPERTY) /\ Commit(v, Exec_SET_PROPERTY(Fetch(v)))
Run_CLASS(v) == Fetching(v, OP_CLASS) /\ Commit(v, Exec_CLASS(Fetch(v)))
Run_METHOD(v) == Fetching(v, OP_METHOD) /\ Commit(v, Exec_METHOD(Fetch(v)))
Run_IMPORT_NATIVE(v) == Fetching(v, OP_IMPORT_NATIVE) /\ Commit(v, Exec_IMPORT_NATIVE(Fetch(v)))
Run_BUILD_LIST(v) == Fetching(v, OP_BUILD_LIST) /\ Commit(v, Exec_BUILD_LIST(Fetch(v)))
Run_GET_SUBSCRIPT(v) == Fetching(v, OP_GET_SUBSCRIPT) /\ Commit(v, Exec_GET_SUBSCRIPT(Fetch(v)))
Run_SET_SUBSCRIPT(v) == Fetching(v, OP_SET_SUBSCRIPT) /\ Commit(v, Exec_SET_SUBSCRIPT(Fetch(v)))
Run_BUILD_DICT(v) == Fetching(v, OP_BUILD_DICT) /\ Commit(v, Exec_BUILD_DICT(Fetch(v)))

(***************************************************************************)
(* The embedder: Orion.run / run_file_with_dependencies interpret compiled *)
(* programs on a VM; the event dispatcher calls handlers on the App        *)
(* instance.  The embedder is single-threaded: it calls an idle VM.        *)
(***************************************************************************)
MaxCalls == 3

HostIdle == \A v \in VMs : vm[v].status # RUNNING

\* an interpret that starts from the global table of a new VM
interpret_from_new_globals(self, main_function) ==
    [self EXCEPT !.stack = <<main_function>>,
                 !.frames = <<CallFrame(main_function, 0, 0)>>,
                 !.globals = VM_init.globals,
                 !.status = RUNNING,
                 !.result = NilV]

\* VM.interpret up to its call of _run
interpret(self, main_function) ==
    [self EXCEPT !.stack = <<main_function>>,
                 !.frames = <<CallFrame(main_function, 0, 0)>>,
                 !.status = RUNNING,
                 !.result = NilV]

\* the first program runs on vmA; a session goes on after a program of the
\* "app" family, with programs of that family
Interpreting(v, main_function) ==
    /\ main_function # None
    /\ vm' = [vm EXCEPT ![v] = interpret(vm[v], main_function)]

Interpret(v, p) ==
    /\ HostIdle
    /\ host.calls < MaxCalls
    /\ IF host.calls = 0 THEN v = "vmA" ELSE host.first[1] = "app" /\ p[1] = "app"
    /\ Interpreting(v, compile_module_source(AstOf(p)))
    /\ callerStacks' = [callerStacks EXCEPT ![v] = <<Activation(<<>>, "script")>>]
    /\ host' = [calls |-> host.calls + 1, active |-> v, kind |-> "interpret", depth |-> 0,
                program |-> p, first |-> IF host.calls = 0 THEN p ELSE host.first,
                method |-> "none"]
    /\ UNCHANGED <<heap, out, q, parsing, lexing>>
    /\ UNCHANGED taVars

\* a function assembled with Chunk.write, for the two instructions the
\* compiler never emits
ChunkProgram == <<"chunk", 1, 0, 0>>

TruthChunk == OrionCompiledFunction(0, <<OP_TRUE, OP_FALSE, OP_POP, OP_RETURN>>, <<>>, "chunk")

InterpretChunk(v) ==
    /\ HostIdle
    /\ host.calls = 0
    /\ v = "vmA"
    /\ Interpreting(v, TruthChunk)
    /\ callerStacks' = [callerStacks EXCEPT ![v] = <<Activation(<<>>, "script")>>]
    /\ host' = [calls |-> 1, active |-> v, kind |-> "interpret", depth |-> 0,
                program |-> ChunkProgram, first |-> ChunkProgram, method |-> "none"]
    /\ UNCHANGED <<heap, out, q, parsing, lexing>>
    /\ UNCHANGED taVars

\* the call did not reach _run: call_method_on_instance returned None
NOT_CALLED == "NOT_CALLED"

Handlers == {"onClick", "boom", "onKey", "onBlur"}

HandlerArgs == {[given |-> FALSE, pairs |-> <<>>],
                [given |-> TRUE, pairs |-> DictSet(<<>>, StrV("key"), StrV("a"))]}

\* VM.call_method_on_instance up to its call of _run
call_method_on_instance(m, instance, method_name, args) ==
        Let(       m.heap[instance.v].definition.v.methods, LAMBDA methods :
        Let(           DictGet(methods, StrV(method_name)), LAMBDA method_code :
        Let(            OrionBoundMethod(instance, method_code), LAMBDA bound_method :
        Let( push(m, bound_method), LAMBDA p :
        Let( alloc(p, OrionDict(args.pairs)), LAMBDA a :
        Let(  IF args.given THEN push(a, a.ret) ELSE p, LAMBDA pa :
        Let(         IF args.given THEN 1 ELSE 0, LAMBDA arg_count :
        Let( call_value(pa, bound_method, arg_count, CHOOSE oracle \in Oracles : TRUE), LAMBDA c :
       IF ~DictHas(methods, StrV(method_name))
       THEN [m EXCEPT !.status = NOT_CALLED, !.result = NilV]
       ELSE IF Live(c) /\ ~c.ret THEN [c EXCEPT !.status = NOT_CALLED, !.result = NilV]
       ELSE c))))))))

\* the VM as call_method_on_instance leaves it for _run
Entering(v, m) ==
    /\ vm' = [vm EXCEPT ![v] = Object(m)]
    /\ heap' = m.heap
    /\ out' = m.out
    /\ callerStacks' =
          [callerStacks EXCEPT ![v] =
              IF Len(m.frames) > Len(vm[v].frames)
              THEN Append(@, Activation(vm[v].stack, "handler"))
              ELSE @]

\* app_instance = self.vm.globals.get("App"), then a handler call on it
CallMethodOnInstance(v, method_name, args) ==
    /\ HostIdle
    /\ 0 < host.calls /\ host.calls < MaxCalls
    /\ "App" \in DOMAIN vm[v].globals
    /\ Kind(Machine(v), vm[v].globals["App"]) = "component_instance"
    /\ Entering(v, call_method_on_instance([Machine(v) EXCEPT !.status = RUNNING],
                                           vm[v].globals["App"], method_name, args))
    /\ host' = [host EXCEPT !.calls = @ + 1, !.active = v, !.kind = "handler",
                            !.depth = Len(vm[v].frames), !.method = method_name]
    /\ UNCHANGED <<q, parsing, lexing>>
    /\ UNCHANGED taVars

\* the render loop of the embedder: a dirty App instance is drawn and its flag
\* cleared
Refresh(v) ==
    /\ HostIdle
    /\ 0 < host.calls
    /\ "App" \in DOMAIN vm[v].globals
    /\ Kind(Machine(v), vm[v].globals["App"]) = "component_instance"
    /\ heap[vm[v].globals["App"].v].dirty
    /\ heap' = [heap EXCEPT ![vm[v].globals["App"].v].dirty = FALSE]
    /\ UNCHANGED <<vm, out, host, callerStacks, q, parsing, lexing>>
    /\ UNCHANGED taVars

(***************************************************************************)
(* compile(source): the driver, one top-level statement of analyze() per   *)
(* step.  The unit under compilation is a sequence of statements from a    *)
(* small catalogue of parseable statements.                                *)
(***************************************************************************)
MaxStmts == 3

StmtNames == {"ok_var", "bad_init", "bad_base", "undeclared", "bad_in_block",
              "bad_arity", "less_equal", "ok_fn"}

StmtOf(n) ==
    CASE n = "ok_var" -> Var("b", Variable("number"), Literal(IntV(1)))
      [] n = "bad_init" -> Var("a", Variable("number"), Literal(StrV("s")))
      [] n = "bad_base" ->
            Var("x", GenericType(Literal(IntV(5)), <<Variable("number")>>), Literal(IntV(1)))
      [] n = "undeclared" -> Expression(Assign("u", Literal(IntV(1))))
      [] n = "bad_in_block" -> Block(<<Var("c", Variable("string"), Literal(IntV(2)))>>)
      [] n = "bad_arity" ->
            Var("l", GenericType(Variable("list"), <<Variable("number"), Variable("string")>>),
                ListLiteral(<<>>))
      [] n = "less_equal" ->
            Expression(Binary(Literal(IntV(1)), "LESS_EQUAL", Literal(IntV(2))))
      [] n = "ok_fn" ->
            Function("f", <<"p">>, <<Return(Binary(Variable("p"), "PLUS", Literal(IntV(1))))>>)

\* the annotation list[T]
ListOf(type_name) == GenericType(Variable("list"), <<Variable(type_name)>>)

\* the annotation dict[K, V]
DictOf(key_name, value_name) ==
    GenericType(Variable("dict"), <<Variable(key_name), Variable(value_name)>>)

\* var l: list[number] = [1, "a"];
MixedListUnit ==
    << Var("l", ListOf("number"), ListLiteral(<<IntLit(1), Str("a")>>)) >>

\* var l: list[any] = [1]; var n: list[number] = l;
AnyListUnit ==
    << Var("l", ListOf("any"), ListLiteral(<<IntLit(1)>>)),
       Var("n", ListOf("number"), Variable("l")) >>

ListUnits ==
    { MixedListUnit,
      AnyListUnit,
      \* var l: list[number] = [1]; var s: list[string] = l;
      << Var("l", ListOf("number"), ListLiteral(<<IntLit(1)>>)),
         Var("s", ListOf("string"), Variable("l")) >>,
      \* var l: list[number] = [1, 2];
      << Var("l", ListOf("number"), ListLiteral(<<IntLit(1), IntLit(2)>>)) >> }

\* type annotations as the parser builds them, with the type each one names
Annotations ==
    << [expr |-> None, type |-> ANY],
       [expr |-> Variable("any"), type |-> ANY],
       [expr |-> Variable("number"), type |-> NUMBER],
       [expr |-> Variable("string"), type |-> STRING_TYPE],
       [expr |-> Variable("bool"), type |-> BOOL],
       [expr |-> ListOf("number"), type |-> ListType(NUMBER)],
       [expr |-> ListOf("any"), type |-> ListType(ANY)],
       [expr |-> DictOf("string", "number"), type |-> DictType(STRING_TYPE, NUMBER)] >>

\* expressions with the type the analyzer infers for each
TypedExprs ==
    << [expr |-> None, type |-> ANY],
       [expr |-> IntLit(1), type |-> NUMBER],
       [expr |-> Str("a"), type |-> STRING_TYPE],
       [expr |-> True, type |-> BOOL],
       [expr |-> ListLiteral(<<IntLit(1)>>), type |-> ListType(NUMBER)],
       [expr |-> DictLiteral(<<Str("a")>>, <<Str("b")>>),
        type |-> DictType(STRING_TYPE, STRING_TYPE)] >>

\* var x: A = I; x = V;   at top level, or the same two statements in a block
VarUnit(a, i, v, local) ==
    IF local
    THEN << Block(<< Var("x", Annotations[a].expr, TypedExprs[i].expr),
                     Expression(Assign("x", TypedExprs[v].expr)) >>) >>
    ELSE << Var("x", Annotations[a].expr, TypedExprs[i].expr),
            Expression(Assign("x", TypedExprs[v].expr)) >>

VarUnits ==
    { VarUnit(a, i, v, local) :
        a \in DOMAIN Annotations, i \in DOMAIN TypedExprs,
        v \in DOMAIN TypedExprs \ {1}, local \in BOOLEAN }

\* the binary operators the parser produces for arithmetic, comparison, equality
ParsedBinaryOps ==
    {"MINUS", "STAR", "SLASH", "LESS", "LESS_EQUAL", "GREATER", "GREATER_EQUAL",
     "PLUS", "EQUAL_EQUAL"}

\* operands with the type the analyzer infers; n is declared without a type
TypedOperands ==
    << [expr |-> IntLit(1), type |-> NUMBER],
       [expr |-> Str("a"), type |-> STRING_TYPE],
       [expr |-> True, type |-> BOOL],
       [expr |-> Variable("n"), type |-> ANY],
       [expr |-> ListLiteral(<<IntLit(1)>>), type |-> ListType(NUMBER)],
       [expr |-> Variable("clock"), type |-> FUNCTION] >>

\* var n; X OP Y;
BinaryUnit(op, x, y) ==
    << Var("n", None, None),
       Expression(Binary(TypedOperands[x].expr, op, TypedOperands[y].expr)) >>

BinaryUnits ==
    { BinaryUnit(op, x, y) :
        op \in ParsedBinaryOps, x \in DOMAIN TypedOperands, y \in DOMAIN TypedOperands }

\* component C { p: 1; function a() { return this.<name>; } function b() { return 1; } }
\* with its three members in the given order; when typed the body of a is
\* var s: string = this.<name>;
ThisNames == {"p", "a", "b", "zz"}

ThisMember(n, name, typed) ==
    CASE n = 1 -> StyleProp("p", <<Lexer_number("1", IntV(1))>>)
      [] n = 2 -> Function("a", <<>>,
                     IF typed THEN <<Var("s", Variable("string"), Get(This, name))>>
                     ELSE <<Return(Get(This, name))>>)
      [] n = 3 -> Function("b", <<>>, <<Return(IntLit(1))>>)

MemberOrders == {o \in [1..3 -> 1..3] : \A i, j \in 1..3 : o[i] = o[j] => i = j}

ThisUnit(order, name, typed) ==
    << ComponentStmt("C", [i \in 1..3 |-> ThisMember(order[i], name, typed)]) >>

ThisUnits ==
    { ThisUnit(order, name, typed) :
        order \in MemberOrders, name \in ThisNames, typed \in BOOLEAN }

\* 1; 2; ... n;
Literals(n) == [i \in 1..n |-> Expression(IntLit(i))]

LimitKinds == {"script", "function", "method"}

\* n literal statements as the script, as the body of function f, or as the
\* body of method m of component C
LimitUnit(kind, n) ==
    CASE kind = "script" -> Literals(n)
      [] kind = "function" -> << Function("f", <<>>, Literals(n)), Return(IntLit(1)) >>
      [] kind = "method" -> << ComponentStmt("C", << Function("m", <<>>, Literals(n)) >>),
                               Return(IntLit(1)) >>

\* as many constants as a chunk can hold, and one more
LimitUnits == { LimitUnit(kind, n) : kind \in LimitKinds, n \in {UINT8_MAX + 1, UINT8_MAX + 2} }

Units ==
    UNION {[1..n -> {StmtOf(s) : s \in StmtNames}] : n \in 1..MaxStmts}
        \cup ListUnits \cup VarUnits \cup BinaryUnits \cup ThisUnits \cup LimitUnits

Pending == [k |-> "Pending"]

\* no parse() is under way
NotParsing == [phase |-> "idle"]

\* no scan_tokens() call is in progress
NotLexing == [phase |-> "idle"]

CompileInit ==
    /\ unit \in Units
    /\ analyzer = TA_init
    /\ visited = {}
    /\ phase = "analyze"
    /\ compiled = Pending
    /\ q = [phase |-> "idle"]
    /\ parsing = NotParsing
    /\ lexing = NotLexing
    /\ vm = [v \in VMs |-> VM_init]
    /\ heap = <<>>
    /\ out = <<>>
    /\ host = HostStart
    /\ callerStacks = [v \in VMs |-> <<>>]

\* one iteration of the loop of analyze(); a host exception leaves
\* _compile_module_source and compile() returns None
Analyzed(i, a) ==
    /\ analyzer' = a
    /\ visited' = visited \cup {i}
    /\ IF a.crashed THEN phase' = "fatal" /\ compiled' = None
       ELSE UNCHANGED <<phase, compiled>>

AnalyzeStmt ==
    /\ phase = "analyze"
    /\ Cardinality(visited) < Len(unit)
    /\ Analyzed(Cardinality(visited) + 1,
                TA_analyze_stmt(analyzer, unit[Cardinality(visited) + 1]))
    /\ UNCHANGED <<unit, q, parsing, lexing>>
    /\ UNCHANGED vmVars

\* if type_analyzer.had_error: return None
AnalyzeEnd ==
    /\ phase = "analyze"
    /\ Cardinality(visited) = Len(unit)
    /\ IF analyzer.had_error THEN phase' = "done" /\ compiled' = None
       ELSE phase' = "codegen" /\ UNCHANGED compiled
    /\ UNCHANGED <<unit, analyzer, visited, q, parsing, lexing>>
    /\ UNCHANGED vmVars

\* Compiler(None, script_fn_node, "script"), _end_compiler, had_error gate
Generated(compiler, e) ==
    IF e.crashed THEN phase' = "fatal" /\ compiled' = None
    ELSE IF e.had_error THEN phase' = "done" /\ compiled' = None
    ELSE phase' = "done" /\ compiled' = C_end_compiler(compiler)

Emitted(compiler) == Generated(compiler, C_emit_return(compiler))

Codegen ==
    /\ phase = "codegen"
    /\ Emitted(Compiler(Function(ScriptName, <<>>, unit), "script"))
    /\ UNCHANGED <<unit, analyzer, visited, q, parsing, lexing>>
    /\ UNCHANGED vmVars

CompileNext == AnalyzeStmt \/ AnalyzeEnd \/ Codegen

SpecCompile == CompileInit /\ [][CompileNext]_vars

(***************************************************************************)
(* The parser (parser.py).  A parser object is its token list, the offset  *)
(* of the current token, what _error has printed, and the synchronizations *)
(* made so far; raised says that a ParseError is propagating, ret is the   *)
(* value the method returned.                                              *)
(***************************************************************************)
\* Lexer._add_token(type): a token without a literal
Lexer_add_token(type, text) == Tok(type, text, NilV)

EOF_TOKEN == Tok("EOF", "", NilV)

\* Parser.__init__
Parser(tokens) ==
    [tokens |-> tokens, current |-> 0, errors |-> <<>>, resumes |-> <<>>,
     raised |-> FALSE, stalled |-> FALSE, ret |-> None]

\* one iteration of a loop over the tokens, from parser state before to
\* after: an iteration that neither raises nor moves self.current would be
\* repeated for ever; the model marks the parser and leaves the loop
P_iterate(before, after) ==
    IF ~after.raised /\ after.current = before.current THEN [after EXCEPT !.stalled = TRUE]
    ELSE after

P_peek(p) == At(p.tokens, p.current)

\* self.tokens[self.current - 1]; offset -1 is the last token
P_previous(p) == At(p.tokens, IF p.current = 0 THEN Len(p.tokens) - 1 ELSE p.current - 1)

P_is_at_end(p) == P_peek(p).token_type = "EOF"

P_check(p, token_type) == ~P_is_at_end(p) /\ P_peek(p).token_type = token_type

P_check_next(p, token_type) ==
    /\ ~P_is_at_end(p)
    /\ At(p.tokens, p.current + 1).token_type # "EOF"
    /\ At(p.tokens, p.current + 1).token_type = token_type

P_advance(p) ==
        Do( IF P_is_at_end(p) THEN p ELSE [p EXCEPT !.current = @ + 1], LAMBDA a :
       [a EXCEPT !.ret = P_previous(a)])

\* a method that returns value, unless a ParseError is on its way
P_return(p, value) == IF p.raised THEN p ELSE [p EXCEPT !.ret = value]

P_match(p, types) ==
    IF p.raised THEN [p EXCEPT !.ret = FALSE]
    ELSE IF \E token_type \in types : P_check(p, token_type)
    THEN [P_advance(p) EXCEPT !.ret = TRUE]
    ELSE [p EXCEPT !.ret = FALSE]

\* _error prints the message for the token at offset at and returns the
\* ParseError for its caller to raise, or to drop
P_error(p, at, message) ==
    IF p.raised THEN p ELSE [p EXCEPT !.errors = Append(@, [at |-> at, message |-> message])]

\* raise self._error(self._peek(), message)
P_raise(p, message) ==
    IF p.raised THEN p ELSE [P_error(p, p.current, message) EXCEPT !.raised = TRUE]

P_consume(p, token_type, message) ==
    IF p.raised THEN p
    ELSE IF P_check(p, token_type) THEN P_advance(p)
    ELSE P_raise(p, message)

\* the tokens before which _synchronize stops
DeclarationStarts == {"FUNCTION", "VAR", "FOR", "IF", "WHILE", "COMPONENT", "RETURN"}

\* the loop of _synchronize
RECURSIVE P_discard(_)
P_discard(p) ==
    IF P_is_at_end(p) THEN p
    ELSE IF P_previous(p).token_type = "SEMICOLON" THEN p
    ELSE IF P_peek(p).token_type \in DeclarationStarts THEN p
    ELSE Do( P_advance(p), LAMBDA a : P_discard(a))

\* _synchronize, entered at the offending token; resumes records from where
\* to where it discarded
P_synchronize(p) ==
        Do( P_advance(p), LAMBDA a :
        Do( P_discard(a), LAMBDA s :
       [s EXCEPT !.resumes = Append(@, [from |-> p.current, to |-> s.current])]))

RECURSIVE P_assignment(_), P_binary(_, _), P_binary_loop(_, _, _), P_unary(_), P_call(_),
          P_call_loop(_, _), P_arguments(_, _), P_elements(_, _), P_pairs(_, _, _),
          P_primary(_), P_type_annotation(_), P_type_parameters(_, _),
          P_declaration(_), P_statement(_), P_block_loop(_, _)

P_expression(p) == P_assignment(p)

\* _or, _and, _equality, _comparison, _term, _factor: level n parses operands
\* with level n + 1 and joins them with its operators, _factor with _unary
BinaryLevels ==
    << {"OR"}, {"AND"}, {"EQUAL_EQUAL"},
       {"GREATER", "GREATER_EQUAL", "LESS", "LESS_EQUAL"},
       {"MINUS", "PLUS"}, {"SLASH", "STAR"} >>

P_operand(p, level) == IF level = Len(BinaryLevels) THEN P_unary(p) ELSE P_binary(p, level + 1)

P_binary_loop(p, level, expr) ==
        Do( P_match(p, BinaryLevels[level]), LAMBDA m :
       IF ~m.ret THEN P_return(p, expr)
       ELSE     Do(      P_previous(m).token_type, LAMBDA operator :
                Do( P_operand(m, level), LAMBDA r :
               IF r.raised THEN r
               ELSE P_binary_loop(r, level, IF level <= 2 THEN Logical(expr, operator, r.ret)
                                            ELSE Binary(expr, operator, r.ret)))))

P_binary(p, level) ==
        Do( P_operand(p, level), LAMBDA l :
       IF l.raised THEN l ELSE P_binary_loop(l, level, l.ret))

P_assignment(p) ==
        Do( P_binary(p, 1), LAMBDA l :
        Do(     l.ret, LAMBDA expr :
        Do( P_match(l, {"EQUAL"}), LAMBDA m :
       IF ~m.ret THEN l
       ELSE     Do(       m.current - 1, LAMBDA equals :
                Do( P_assignment(m), LAMBDA v :
               IF v.raised THEN v
               ELSE IF expr.k = "Variable" THEN P_return(v, Assign(expr.name, v.ret))
               ELSE IF expr.k = "Get" THEN P_return(v, SetExpr(expr.object, expr.name, v.ret))
               ELSE IF expr.k = "GetSubscript"
               THEN P_return(v, SetSubscript(expr.object, expr.index, v.ret))
               ELSE P_return(P_error(v, equals, "Invalid assignment target."), expr))))))

P_unary(p) ==
        Do( P_match(p, {"MINUS", "BANG"}), LAMBDA m :
       IF ~m.ret THEN P_call(p)
       ELSE     Do(      P_previous(m).token_type, LAMBDA operator :
                Do( P_unary(m), LAMBDA r :
               P_return(r, Unary(operator, r.ret)))))

\* the argument loop of _finish_call, entered when the next token is not ')'
P_arguments(p, arguments) ==
        Do( IF Len(arguments) >= 255
             THEN P_error(p, p.current, "Can't have more than 255 arguments.") ELSE p, LAMBDA c :
        Do( P_expression(c), LAMBDA e :
        Do( P_match(e, {"COMMA"}), LAMBDA m :
       IF e.raised THEN e
       ELSE IF m.ret THEN P_arguments(m, Append(arguments, e.ret))
       ELSE P_return(e, Append(arguments, e.ret)))))

P_finish_call(p, callee) ==
        Do( IF P_check(p, "RIGHT_PAREN") THEN P_return(p, <<>>)
             ELSE P_arguments(p, <<>>), LAMBDA a :
        Do( P_consume(a, "RIGHT_PAREN", "Expect ')' after arguments."), LAMBDA paren :
       P_return(paren, Call(callee, a.ret))))

P_call_loop(p, expr) ==
    IF p.raised THEN p
    ELSE IF P_check(p, "LEFT_PAREN")
    THEN     Do( P_finish_call(P_advance(p), expr), LAMBDA c : P_call_loop(c, c.ret))
    ELSE IF P_check(p, "DOT")
    THEN     Do( P_consume(P_advance(p), "IDENTIFIER",
                            "Expect property name after '.'."), LAMBDA name :
            IF name.raised THEN name ELSE P_call_loop(name, Get(expr, name.ret.lexeme)))
    ELSE IF P_check(p, "LEFT_BRACKET")
    THEN     Do( P_expression(P_advance(p)), LAMBDA index :
             Do( P_consume(index, "RIGHT_BRACKET", "Expect ']' after index."), LAMBDA bracket :
            IF bracket.raised THEN bracket
            ELSE P_call_loop(bracket, GetSubscript(expr, index.ret))))
    ELSE P_return(p, expr)

P_call(p) ==
        Do( P_primary(p), LAMBDA e :
       P_call_loop(e, e.ret))

\* the element loop of a list literal
P_elements(p, elements) ==
        Do( P_expression(p), LAMBDA e :
        Do( P_match(e, {"COMMA"}), LAMBDA m :
       IF e.raised THEN e
       ELSE IF m.ret THEN P_elements(m, Append(elements, e.ret))
       ELSE P_return(e, Append(elements, e.ret))))

\* the loop of a dictionary literal; ret is the pair of keys and values
P_pairs(p, keys, values) ==
        Do( P_consume(p, "STRING", "Dictionary keys must be strings."), LAMBDA key :
        Do( P_consume(key, "COLON", "Expect ':' after dictionary key."), LAMBDA colon :
        Do( P_expression(colon), LAMBDA value :
        Do( P_match(value, {"COMMA"}), LAMBDA m :
       IF value.raised THEN value
       ELSE IF m.ret
       THEN P_pairs(m, Append(keys, Literal(key.ret.literal)), Append(values, value.ret))
       ELSE P_return(value, << Append(keys, Literal(key.ret.literal)),
                               Append(values, value.ret) >>)))))

P_primary(p) ==
    IF p.raised THEN p
    ELSE IF P_check(p, "FALSE") THEN P_return(P_advance(p), Literal(BoolV(FALSE)))
    ELSE IF P_check(p, "TRUE") THEN P_return(P_advance(p), Literal(BoolV(TRUE)))
    ELSE IF P_check(p, "THIS") THEN P_return(P_advance(p), This)
    ELSE IF P_check(p, "NUMBER") \/ P_check(p, "STRING")
    THEN P_return(P_advance(p), Literal(P_peek(p).literal))
    ELSE IF \E token_type \in {"INT", "FLOAT", "BOOL", "STRING_TYPE", "IDENTIFIER"} :
               P_check(p, token_type)
    THEN P_return(P_advance(p), Variable(P_peek(p).lexeme))
    ELSE IF P_check(p, "LEFT_PAREN")
    THEN     Do( P_expression(P_advance(p)), LAMBDA e :
            P_return(P_consume(e, "RIGHT_PAREN", "Expect ')' after expression."),
                     Grouping(e.ret)))
    ELSE IF P_check(p, "LEFT_BRACKET")
    THEN     Do( IF P_check(P_advance(p), "RIGHT_BRACKET") THEN P_return(P_advance(p), <<>>)
                  ELSE P_elements(P_advance(p), <<>>), LAMBDA e :
            P_return(P_consume(e, "RIGHT_BRACKET", "Expect ']' after list elements."),
                     ListLiteral(e.ret)))
    ELSE IF P_check(p, "LEFT_BRACE")
    THEN     Do( IF P_check(P_advance(p), "RIGHT_BRACE")
                  THEN P_return(P_advance(p), << <<>>, <<>> >>)
                  ELSE P_pairs(P_advance(p), <<>>, <<>>), LAMBDA d :
             Do( P_consume(d, "RIGHT_BRACE", "Expect '}' after dictionary."), LAMBDA brace :
            IF brace.raised THEN brace
            ELSE P_return(brace, DictLiteral(d.ret[1], d.ret[2]))))
    ELSE P_raise(p, "Expect expression.")

\* the parameter loop of a generic type
P_type_parameters(p, params) ==
        Do( P_type_annotation(p), LAMBDA t :
        Do( P_match(t, {"COMMA"}), LAMBDA m :
       IF t.raised THEN t
       ELSE IF m.ret THEN P_type_parameters(m, Append(params, t.ret))
       ELSE P_return(t, Append(params, t.ret))))

P_type_annotation(p) ==
        Do( P_primary(p), LAMBDA base_type :
        Do( P_match(base_type, {"LEFT_BRACKET"}), LAMBDA m :
       IF ~m.ret THEN base_type
       ELSE     Do( IF P_check(m, "RIGHT_BRACKET") THEN P_return(m, <<>>)
                     ELSE P_type_parameters(m, <<>>), LAMBDA params :
               P_return(P_consume(params, "RIGHT_BRACKET",
                                  "Expect ']' after type parameters."),
                        GenericType(base_type.ret, params.ret)))))

\* ast.Param
Param(name, type) == [k |-> "Param", name |-> name, type |-> type]

P_expression_statement(p) ==
        Do( P_expression(p), LAMBDA expr :
       P_return(P_consume(expr, "SEMICOLON", "Expect ';' after expression."),
                Expression(expr.ret)))

\* entered after var, let or const
P_var_declaration(p, is_const) ==
        Do( P_consume(p, "IDENTIFIER", "Expect variable name."), LAMBDA name :
        Do( P_match(name, {"COLON"}), LAMBDA colon :
        Do( IF colon.ret THEN P_type_annotation(colon) ELSE P_return(name, None), LAMBDA type_annotation :
        Do( P_match(type_annotation, {"EQUAL"}), LAMBDA equal :
        Do( IF equal.ret THEN P_expression(equal)
             ELSE P_return(type_annotation, None), LAMBDA initializer :
        Do( IF is_const /\ ~initializer.raised /\ initializer.ret = None
             THEN P_error(initializer, name.current - 1,
                          "Constant variables must be initialized.")
             ELSE initializer, LAMBDA checked :
       P_return(P_consume(checked, "SEMICOLON", "Expect ';' after variable declaration."),
                Var(name.ret.lexeme, type_annotation.ret, initializer.ret))))))))

\* the loop of _block
P_block_loop(p, statements) ==
    IF p.raised THEN p
    ELSE IF P_check(p, "RIGHT_BRACE") \/ P_is_at_end(p) \/ p.stalled
    THEN P_return(p, statements)
    ELSE     Do( P_iterate(p, P_declaration(p)), LAMBDA declaration :
            P_block_loop(declaration,
                         IF declaration.ret # None THEN Append(statements, declaration.ret)
                         ELSE statements))

P_block(p) ==
        Do( P_block_loop(p, <<>>), LAMBDA b :
       P_return(P_consume(b, "RIGHT_BRACE", "Expect '}' after block."), b.ret))

P_if_statement(p) ==
        Do( P_consume(p, "LEFT_PAREN", "Expect '(' after 'if'."), LAMBDA paren :
        Do( P_expression(paren), LAMBDA condition :
        Do( P_statement(P_consume(condition, "RIGHT_PAREN",
                                   "Expect ')' after if condition.")), LAMBDA then_branch :
        Do( P_match(then_branch, {"ELSE"}), LAMBDA else :
        Do( IF else.ret THEN P_statement(else)
             ELSE P_return(then_branch, None), LAMBDA else_branch :
       P_return(else_branch, If(condition.ret, then_branch.ret, else_branch.ret)))))))

P_while_statement(p) ==
        Do( P_consume(p, "LEFT_PAREN", "Expect '(' after 'while'."), LAMBDA paren :
        Do( P_expression(paren), LAMBDA condition :
        Do( P_statement(P_consume(condition, "RIGHT_PAREN",
                                   "Expect ')' after while condition.")), LAMBDA body :
       P_return(body, While(condition.ret, body.ret)))))

\* the loop desugared: initializer, then while (condition) { body; increment }
P_for_statement(p) ==
        Do( P_consume(p, "LEFT_PAREN", "Expect '(' after 'for'."), LAMBDA paren :
        Do( IF paren.raised THEN paren
             ELSE IF P_check(paren, "SEMICOLON") THEN P_return(P_advance(paren), None)
             ELSE IF P_check(paren, "VAR") THEN P_var_declaration(P_advance(paren), FALSE)
             ELSE P_expression_statement(paren), LAMBDA initializer :
        Do( IF initializer.raised \/ P_check(initializer, "SEMICOLON")
             THEN P_return(initializer, None)
             ELSE P_expression(initializer), LAMBDA condition :
        Do( P_consume(condition, "SEMICOLON", "Expect ';' after loop condition."), LAMBDA semi :
        Do( IF semi.raised \/ P_check(semi, "RIGHT_PAREN") THEN P_return(semi, None)
             ELSE P_expression(semi), LAMBDA increment :
        Do( P_statement(P_consume(increment, "RIGHT_PAREN",
                                   "Expect ')' after for clauses.")), LAMBDA body :
        Do(      IF increment.ret # None
                  THEN Block(<<body.ret, Expression(increment.ret)>>)
                  ELSE body.ret, LAMBDA stepped :
        Do(      While(IF condition.ret = None THEN Literal(BoolV(TRUE)) ELSE condition.ret,
                        stepped), LAMBDA loop :
       P_return(body, IF initializer.ret # None THEN Block(<<initializer.ret, loop>>)
                      ELSE loop)))))))))

\* entered after return
P_return_statement(p) ==
        Do( IF P_check(p, "SEMICOLON") THEN P_return(p, None)
             ELSE P_expression(p), LAMBDA value :
       P_return(P_consume(value, "SEMICOLON", "Expect ';' after return value."),
                Return(value.ret)))

P_statement(p) ==
    IF p.raised THEN p
    ELSE IF P_check(p, "FOR") THEN P_for_statement(P_advance(p))
    ELSE IF P_check(p, "IF") THEN P_if_statement(P_advance(p))
    ELSE IF P_check(p, "RETURN") THEN P_return_statement(P_advance(p))
    ELSE IF P_check(p, "WHILE") THEN P_while_statement(P_advance(p))
    ELSE IF P_check(p, "LEFT_BRACE")
    THEN     Do( P_block(P_advance(p)), LAMBDA b : P_return(b, Block(b.ret)))
    ELSE P_expression_statement(p)

\* the parameter loop of _function, entered when the next token is not ')'
RECURSIVE P_parameters(_, _)
P_parameters(p, parameters) ==
        Do( IF Len(parameters) >= 255
             THEN P_error(p, p.current, "Can't have more than 255 parameters.") ELSE p, LAMBDA c :
        Do( P_consume(c, "IDENTIFIER", "Expect parameter name."), LAMBDA param_name :
        Do( P_match(param_name, {"COLON"}), LAMBDA colon :
        Do( IF colon.ret THEN P_type_annotation(colon)
             ELSE P_return(param_name, None), LAMBDA param_type :
        Do( P_match(param_type, {"COMMA"}), LAMBDA m :
        Do(      Append(parameters, Param(param_name.ret.lexeme, param_type.ret)), LAMBDA added :
       IF param_type.raised THEN param_type
       ELSE IF m.ret THEN P_parameters(m, added)
       ELSE P_return(param_type, added)))))))

\* _function(kind), entered after function; the return type is parsed and is
\* no part of the Function node of this model
P_function(p, kind) ==
        Do( P_consume(p, "IDENTIFIER", "Expect " \o kind \o " name."), LAMBDA name :
        Do( P_consume(name, "LEFT_PAREN", "Expect '(' after " \o kind \o " name."), LAMBDA paren :
        Do( IF paren.raised \/ P_check(paren, "RIGHT_PAREN") THEN P_return(paren, <<>>)
             ELSE P_parameters(paren, <<>>), LAMBDA parameters :
        Do( P_consume(parameters, "RIGHT_PAREN", "Expect ')' after parameters."), LAMBDA close :
        Do( P_match(close, {"COLON"}), LAMBDA colon :
        Do( IF colon.ret THEN P_type_annotation(colon) ELSE close, LAMBDA return_type :
        Do( P_block(P_consume(return_type, "LEFT_BRACE", "Expect '{' before " \o kind \o " body.")), LAMBDA body :
       P_return(body, Function(name.ret.lexeme, parameters.ret, body.ret)))))))))

P_module_statement(p) ==
        Do( P_consume(p, "IDENTIFIER", "Expect module name."), LAMBDA name :
       P_return(P_consume(name, "SEMICOLON", "Expect ';' after module name."),
                ModuleStmt(name.ret.lexeme)))

P_use_statement(p) ==
        Do( P_consume(p, "IDENTIFIER", "Expect module name to use."), LAMBDA name :
        Do( P_match(name, {"AS"}), LAMBDA as :
        Do( IF as.ret THEN P_consume(as, "IDENTIFIER", "Expect alias name after 'as'.")
             ELSE P_return(name, None), LAMBDA alias :
       P_return(P_consume(alias, "SEMICOLON", "Expect ';' after use statement."),
                UseStmt(name.ret.lexeme, alias.ret)))))

\* the loop of _style_property
RECURSIVE P_values(_, _)
P_values(p, values) ==
    IF p.raised \/ P_check(p, "SEMICOLON") \/ P_is_at_end(p) THEN P_return(p, values)
    ELSE     Do( P_advance(p), LAMBDA a :
            Do( IF P_peek(p).token_type = "COMMA" THEN values
                ELSE Append(values, P_peek(p)), LAMBDA found :
           P_values(a, found)))

P_style_property(p) ==
        Do( P_consume(p, "IDENTIFIER", "Expect property name."), LAMBDA name :
        Do( P_values(P_consume(name, "COLON", "Expect ':' after property name."),
                      <<>>), LAMBDA values :
       P_return(P_consume(values, "SEMICOLON", "Expect ';' after property value."),
                StyleProp(name.ret.lexeme, values.ret))))

\* the loop of _state_block
RECURSIVE P_style_properties(_, _)
P_style_properties(p, props) ==
    IF p.raised \/ P_check(p, "RIGHT_BRACE") \/ P_is_at_end(p) \/ p.stalled
    THEN P_return(p, props)
    ELSE     Do( P_iterate(p, P_style_property(p)), LAMBDA prop :
            P_style_properties(prop, Append(props, prop.ret)))

P_state_block(p) ==
        Do( P_consume(p, "IDENTIFIER", "Expect state name."), LAMBDA name :
        Do( P_style_properties(P_consume(name, "LEFT_BRACE",
                                          "Expect '{' before state block body."),
                                <<>>), LAMBDA props :
       P_return(P_consume(props, "RIGHT_BRACE", "Expect '}' after state block body."),
                StateBlock(name.ret.lexeme, props.ret))))

P_component_body_statement(p) ==
    IF P_check(p, "FUNCTION") THEN P_function(P_advance(p), "method")
    ELSE IF P_check(p, "IDENTIFIER") /\ P_check_next(p, "LEFT_BRACE") THEN P_state_block(p)
    ELSE P_style_property(p)

\* the loop of _component_declaration
RECURSIVE P_component_body(_, _)
P_component_body(p, body) ==
    IF p.raised \/ P_check(p, "RIGHT_BRACE") \/ P_is_at_end(p) \/ p.stalled
    THEN P_return(p, body)
    ELSE     Do( P_iterate(p, P_component_body_statement(p)), LAMBDA member :
            P_component_body(member, Append(body, member.ret)))

P_component_declaration(p) ==
        Do( P_consume(p, "IDENTIFIER", "Expect component name."), LAMBDA name :
        Do( P_component_body(P_consume(name, "LEFT_BRACE",
                                        "Expect '{' before component body."),
                              <<>>), LAMBDA body :
       P_return(P_consume(body, "RIGHT_BRACE", "Expect '}' after component body."),
                ComponentStmt(name.ret.lexeme, body.ret))))

\* the try block of _declaration
P_declare(p) ==
    IF P_check(p, "MODULE") THEN P_module_statement(P_advance(p))
    ELSE IF P_check(p, "USE") THEN P_use_statement(P_advance(p))
    ELSE IF P_check(p, "COMPONENT") THEN P_component_declaration(P_advance(p))
    ELSE IF P_check(p, "FUNCTION") THEN P_function(P_advance(p), "function")
    ELSE IF P_check(p, "VAR") \/ P_check(p, "LET") THEN P_var_declaration(P_advance(p), FALSE)
    ELSE IF P_check(p, "CONST") THEN P_var_declaration(P_advance(p), TRUE)
    ELSE P_statement(p)

\* a plausible slip: the ParseError is caught without synchronizing
P_declaration_unsynchronized(p) ==
        Do( P_declare(p), LAMBDA d :
       IF d.raised THEN [d EXCEPT !.raised = FALSE, !.ret = None]
       ELSE d)

\* _declaration: a ParseError is caught here, the parser synchronizes and
\* the declaration is None
P_declaration(p) ==
        Do( P_declare(p), LAMBDA d :
       IF d.raised THEN [P_synchronize([d EXCEPT !.raised = FALSE]) EXCEPT !.ret = None]
       ELSE d)

(***************************************************************************)
(* parse() on drawn sources.  A source is a sequence of fragments, each a  *)
(* sequence of lexemes; one step is one iteration of the loop of parse().  *)
(***************************************************************************)
\* Lexer._scan_token on the lexemes that are no identifiers or numbers
Punctuation ==
    [text \in {"(", ")", "{", "}", "[", "]", ",", ".", "+", ";", "=", ":"} |->
        CASE text = "(" -> "LEFT_PAREN" [] text = ")" -> "RIGHT_PAREN"
          [] text = "{" -> "LEFT_BRACE" [] text = "}" -> "RIGHT_BRACE"
          [] text = "[" -> "LEFT_BRACKET" [] text = "]" -> "RIGHT_BRACKET"
          [] text = "," -> "COMMA" [] text = "." -> "DOT"
          [] text = "+" -> "PLUS" [] text = ";" -> "SEMICOLON"
          [] text = "=" -> "EQUAL" [] OTHER -> "COLON"]

Digits == [text \in {"0", "1", "2"} |-> CASE text = "0" -> 0 [] text = "1" -> 1 [] OTHER -> 2]

Lexer_scan_token(text) ==
    IF text \in DOMAIN Punctuation THEN Lexer_add_token(Punctuation[text], text)
    ELSE IF text \in DOMAIN Digits THEN Lexer_number(text, IntV(Digits[text]))
    ELSE Lexer_identifier(text)

\* Lexer.scan_tokens: the tokens of the lexemes, then EOF
Lexer_scan_tokens(lexemes) ==
    [i \in 1..Len(lexemes) |-> Lexer_scan_token(lexemes[i])] \o <<EOF_TOKEN>>

FragmentNames ==
    {"var", "assign", "set", "set_subscript", "expression", "return", "function",
     "literal_target", "grouping_target", "binary_target", "call_target",
     "no_semicolon", "two_names", "no_operand", "no_name",
     "function_no_semicolon", "function_two_names", "block_no_semicolon",
     "no_expression", "component", "component_no_colon"}

FragmentOf(name) ==
    CASE name = "var" -> <<"var", "x", "=", "1", ";">>
      [] name = "assign" -> <<"a", "=", "1", ";">>
      [] name = "set" -> <<"a", ".", "b", "=", "1", ";">>
      [] name = "set_subscript" -> <<"a", "[", "0", "]", "=", "1", ";">>
      [] name = "expression" -> <<"c", ";">>
      [] name = "return" -> <<"return", "a", ";">>
      [] name = "function" -> <<"function", "f", "(", ")", "{", "c", ";", "}">>
      [] name = "literal_target" -> <<"1", "=", "2", ";">>
      [] name = "grouping_target" -> <<"(", "a", ")", "=", "1", ";">>
      [] name = "binary_target" -> <<"a", "+", "1", "=", "2", ";">>
      [] name = "call_target" -> <<"a", "(", ")", "=", "1", ";">>
      [] name = "no_semicolon" -> <<"a", "b">>
      [] name = "two_names" -> <<"a", "b", ";">>
      [] name = "no_operand" -> <<"1", "+", ";">>
      [] name = "no_name" -> <<"var", "=", "1", ";">>
      [] name = "function_no_semicolon" -> <<"function", "f", "(", ")", "{", "a", "b", "}">>
      [] name = "function_two_names" -> <<"function", "f", "(", ")", "{", "a", "b", ";", "}">>
      [] name = "block_no_semicolon" -> <<"{", "a", "b", "}">>
      [] name = "no_expression" -> <<")", ";">>
      [] name = "component" ->
            <<"component", "C", "{", "w", ":", "1", ",", "2", ";",
              "hover", "{", "w", ":", "1", ";", "}",
              "function", "m", "(", ")", "{", "c", ";", "}", "}">>
      [] name = "component_no_colon" -> <<"component", "C", "{", "w", "1", ";", "}">>

MaxFragments == 2

Sources == UNION {[1..n -> FragmentNames] : n \in 1..MaxFragments}

RECURSIVE Lexemes(_)
Lexemes(source) ==
    IF source = <<>> THEN <<>> ELSE FragmentOf(Head(source)) \o Lexemes(Tail(source))

ParseInit ==
    /\ \E source \in Sources :
          parsing = [phase |-> "parsing", source |-> source,
                     parser |-> Parser(Lexer_scan_tokens(Lexemes(source))),
                     statements |-> <<>>, iterations |-> 0]
    /\ q = [phase |-> "idle"]
    /\ lexing = NotLexing
    /\ unit = <<>>
    /\ analyzer = TA_init
    /\ visited = {}
    /\ phase = "idle"
    /\ compiled = Pending
    /\ vm = [v \in VMs |-> VM_init]
    /\ heap = <<>>
    /\ out = <<>>
    /\ host = HostStart
    /\ callerStacks = [v \in VMs |-> <<>>]

\* one iteration of the loop of parse()
ParseDeclaration ==
    /\ parsing.phase = "parsing"
    /\ ~P_is_at_end(parsing.parser)
    /\ ~parsing.parser.stalled
    /\ \E declaration \in {P_iterate(parsing.parser, P_declaration(parsing.parser))} :
           parsing' = [parsing EXCEPT
                          !.parser = declaration,
                          !.statements = IF declaration.ret # None
                                         THEN Append(@, declaration.ret) ELSE @,
                          !.iterations = @ + 1]
    /\ UNCHANGED <<q, lexing>>
    /\ UNCHANGED taVars
    /\ UNCHANGED vmVars

\* return statements
ParseReturn ==
    /\ parsing.phase = "parsing"
    /\ P_is_at_end(parsing.parser)
    /\ parsing' = [parsing EXCEPT !.phase = "parsed"]
    /\ UNCHANGED <<q, lexing>>
    /\ UNCHANGED taVars
    /\ UNCHANGED vmVars

\* _compile_module_source from the check of the parser's result on: the
\* analysis and code generation of the statements parse() returned
CompileParsed ==
    /\ parsing.phase = "parsed"
    /\ compiled' = IF parsing.statements = <<>> /\ Len(parsing.parser.tokens) > 1 THEN None
                   ELSE compile_module_source(parsing.statements)
    /\ parsing' = [parsing EXCEPT !.phase = "compiled"]
    /\ UNCHANGED <<unit, analyzer, visited, phase, q, lexing>>
    /\ UNCHANGED vmVars

ParseNext == ParseDeclaration \/ ParseReturn \/ CompileParsed

SpecParse == ParseInit /\ [][ParseNext]_vars

\* parse() alone; the loop of parse() is not suspended for ever between two
\* iterations
ParseLoop == ParseDeclaration \/ ParseReturn

SpecParseLive == ParseInit /\ [][ParseLoop]_vars /\ WF_vars(ParseLoop)

(***************************************************************************)
(* The Lexer on characters (lexer.py).  A source is a sequence of          *)
(* characters; l is the Lexer object.  A while loop that only advances is  *)
(* written as the position at which it stops.                              *)
(***************************************************************************)
Token(type, lexeme, literal, line) ==
    [token_type |-> type, lexeme |-> lexeme, literal |-> literal, line |-> line]

Lexer(source) ==
    [source |-> source, tokens |-> <<>>, start |-> 0, current |-> 0, line |-> 1,
     printed |-> <<>>, raised |-> "", ret |-> None]

\* what _peek and _peek_next return past the end
NUL == "NUL"

NEWLINE == "\n"

CharAt(source, i) == IF i >= Len(source) THEN NUL ELSE source[i + 1]

\* self.source[from:to]
RECURSIVE Text(_, _, _)
Text(source, from, to) ==
    IF from >= to THEN ""
    ELSE IF to = from + 1 THEN source[to]
    ELSE Text(source, from, (from + to) \div 2) \o Text(source, (from + to) \div 2, to)

L_is_at_end(l) == l.current >= Len(l.source)

L_advance(l) == [l EXCEPT !.current = @ + 1, !.ret = l.source[l.current + 1]]

L_add_token(l, token_type, literal) ==
    [l EXCEPT !.tokens = Append(@, Token(token_type, Text(l.source, l.start, l.current),
                                        literal, l.line))]

L_match(l, expected) ==
    IF L_is_at_end(l) THEN [l EXCEPT !.ret = FALSE]
    ELSE IF l.source[l.current + 1] # expected THEN [l EXCEPT !.ret = FALSE]
    ELSE [l EXCEPT !.current = @ + 1, !.ret = TRUE]

L_peek(l) == CharAt(l.source, l.current)

L_peek_next(l) == CharAt(l.source, l.current + 1)

L_print(l, message) == [l EXCEPT !.printed = Append(@, [line |-> l.line, message |-> message])]

DigitChars == {"0", "1", "2", "3", "4", "5", "6", "7", "8", "9"}

L_is_digit(char) == char \in DigitChars

Letters ==
    {"a", "b", "c", "d", "e", "f", "g", "h", "i", "j", "k", "l", "m", "n", "o", "p", "q",
     "r", "s", "t", "u", "v", "w", "x", "y", "z", "A", "B", "C", "D", "E", "F", "G", "H",
     "I", "J", "K", "L", "M", "N", "O", "P", "Q", "R", "S", "T", "U", "V", "W", "X", "Y", "Z"}

L_is_alpha(char) == char \in Letters \cup {"_"}

L_is_alpha_numeric(char) == L_is_alpha(char) \/ L_is_digit(char)

\* while going(self.current): self._advance(), counting the newlines passed
\* when counted
L_while(l, going(_), counted) ==
        Let( CHOOSE i \in l.current..Len(l.source) :
                  /\ ~going(i)
                  /\ \A j \in l.current..(i - 1) : going(j), LAMBDA stop :
       [l EXCEPT !.current = stop,
                 !.line = IF counted
                          THEN @ + Cardinality({j \in l.current..(stop - 1) :
                                                   CharAt(l.source, j) = NEWLINE})
                          ELSE @])

L_string(l, quote_char) ==
        Let( L_while(l, LAMBDA i : CharAt(l.source, i) # quote_char /\ i < Len(l.source), TRUE),
             LAMBDA s :
       IF L_is_at_end(s) THEN L_print(s, "Unterminated string.")
       ELSE     Let( L_advance(s), LAMBDA closed :
               L_add_token(closed, "STRING",
                           StrV(Text(closed.source, closed.start + 1, closed.current - 1)))))

DigitValue ==
    [char \in DigitChars |->
        CASE char = "0" -> 0 [] char = "1" -> 1 [] char = "2" -> 2 [] char = "3" -> 3
          [] char = "4" -> 4 [] char = "5" -> 5 [] char = "6" -> 6 [] char = "7" -> 7
          [] char = "8" -> 8 [] OTHER -> 9]

\* the longest short source
MaxChars == 4

\* sys.float_info.max_10_exp: the largest e for which 10 ** e is a float
DBL_MAX_10_EXP == 308

\* the leading digits of the largest float, 1.7976931348623157e308
DBL_MAX_DIGITS == <<1, 7, 9, 7, 6, 9, 3, 1, 3, 4, 8, 6, 2, 3, 1, 5, 7>>

\* the digits of the integer part from..to of the source, without its
\* leading zeros
Significant(source, from, to) ==
        Let( CHOOSE i \in from..to :
                  /\ i = to \/ source[i + 1] # "0"
                  /\ \A j \in from..(i - 1) : source[j + 1] = "0", LAMBDA first :
       [i \in 1..(to - first) |-> DigitValue[source[first + i]]])

\* digits a before digits b in dictionary order
Before(a, b) ==
    \E i \in 1..Min(Len(a), Len(b)) :
        /\ a[i] < b[i]
        /\ \A j \in 1..(i - 1) : a[j] = b[j]

\* float(text) is inf: the integer part has more digits than the largest
\* float, or as many and larger leading digits.  (The digit strings drawn
\* never agree with the largest float on all of its leading digits.)
PyFloatIsInf(digits) ==
    \/ Len(digits) > DBL_MAX_10_EXP + 1
    \/ /\ Len(digits) = DBL_MAX_10_EXP + 1
       /\ Before(DBL_MAX_DIGITS, digits)

RECURSIVE DigitsValue(_)
DigitsValue(digits) ==
    IF digits = <<>> THEN 0
    ELSE 10 * DigitsValue(SubSeq(digits, 1, Len(digits) - 1)) + digits[Len(digits)]

RECURSIVE Pow10(_)
Pow10(n) == IF n = 0 THEN 1 ELSE 10 * Pow10(n - 1)

\* value = float(text); if value == int(value): value = int(value)
\* for the integer part from..dot and the fraction after it up to to; a
\* literal longer than any drawn short source stands for its own value
PyNumber(source, from, dot, to) ==
        Let( Significant(source, from, dot), LAMBDA ip :
        Let( IF dot < to THEN [i \in 1..(to - dot - 1) |-> DigitValue[source[dot + 1 + i]]]
             ELSE <<>>, LAMBDA fp :
       IF Len(ip) + Len(fp) > MaxChars
       THEN [t |-> "float", v |-> Text(source, from, to)]
       ELSE     Let( FloatV(DigitsValue(ip \o fp), Pow10(Len(fp))), LAMBDA value :
               IF value.v[2] = 1 THEN IntV(value.v[1]) ELSE value)))

L_number(l) ==
        Let( L_while(l, LAMBDA i : L_is_digit(CharAt(l.source, i)), FALSE), LAMBDA whole :
        Let( IF L_peek(whole) = "." /\ L_is_digit(L_peek_next(whole))
             THEN L_while(L_advance(whole), LAMBDA i : L_is_digit(CharAt(l.source, i)), FALSE)
             ELSE whole, LAMBDA n :
       IF PyFloatIsInf(Significant(n.source, n.start, whole.current))
       THEN [n EXCEPT !.raised = "OverflowError"]
       ELSE L_add_token(n, "NUMBER", PyNumber(n.source, n.start, whole.current, n.current))))

L_identifier(l) ==
        Let( L_while(l, LAMBDA i : L_is_alpha_numeric(CharAt(l.source, i)), FALSE), LAMBDA s :
        Let( Text(s.source, s.start, s.current), LAMBDA text :
       L_add_token(s, IF text \in DOMAIN keywords THEN keywords[text] ELSE "IDENTIFIER", NilV)))

L_block_comment(l) ==
        Let( L_while(l, LAMBDA i : /\ ~(CharAt(l.source, i) = "*" /\ CharAt(l.source, i + 1) = "/")
                                   /\ i < Len(l.source), TRUE), LAMBDA s :
       IF L_is_at_end(s) THEN L_print(s, "Unterminated block comment.")
       ELSE L_advance(L_advance(s)))

SingleCharacter ==
    [char \in {"(", ")", "{", "}", ",", ".", "-", "+", ";", "*", ":", "#"} |->
        CASE char = "(" -> "LEFT_PAREN" [] char = ")" -> "RIGHT_PAREN"
          [] char = "{" -> "LEFT_BRACE" [] char = "}" -> "RIGHT_BRACE"
          [] char = "," -> "COMMA" [] char = "." -> "DOT" [] char = "-" -> "MINUS"
          [] char = "+" -> "PLUS" [] char = ";" -> "SEMICOLON" [] char = "*" -> "STAR"
          [] char = ":" -> "COLON" [] OTHER -> "HASH"]

\* self._add_token(two if self._match(second) else one)
L_one_or_two(l, second, two, one) ==
        Let( L_match(l, second), LAMBDA m :
       L_add_token(m, IF m.ret THEN two ELSE one, NilV))

L_scan_token(l) ==
        Let( L_advance(l), LAMBDA a :
        Let( a.ret, LAMBDA char :
       IF char \in DOMAIN SingleCharacter THEN L_add_token(a, SingleCharacter[char], NilV)
       ELSE IF char = "!" THEN L_one_or_two(a, "=", "BANG_EQUAL", "BANG")
       ELSE IF char = "="
       THEN IF L_match(a, "=").ret THEN L_add_token(L_match(a, "="), "EQUAL_EQUAL", NilV)
            ELSE IF L_match(a, ">").ret THEN L_add_token(L_match(a, ">"), "ARROW", NilV)
            ELSE L_add_token(a, "EQUAL", NilV)
       ELSE IF char = "<" THEN L_one_or_two(a, "=", "LESS_EQUAL", "LESS")
       ELSE IF char = ">" THEN L_one_or_two(a, "=", "GREATER_EQUAL", "GREATER")
       ELSE IF char = "/"
       THEN IF L_match(a, "/").ret
            THEN L_while(L_match(a, "/"),
                         LAMBDA i : CharAt(l.source, i) # NEWLINE /\ i < Len(l.source), FALSE)
            ELSE IF L_match(a, "*").ret THEN L_block_comment(L_match(a, "*"))
            ELSE L_add_token(a, "SLASH", NilV)
       ELSE IF char \in {" ", "\r", "\t"} THEN a
       ELSE IF char = NEWLINE THEN [a EXCEPT !.line = @ + 1]
       ELSE IF char = "\"" THEN L_string(a, "\"")
       ELSE IF char = "'" THEN L_string(a, "'")
       ELSE IF L_is_digit(char) THEN L_number(a)
       ELSE IF L_is_alpha(char) THEN L_identifier(a)
       ELSE L_print(a, "Unexpected character: " \o char)))

\* the characters sources are drawn from
Alphabet == {"a", "1", ".", NEWLINE, "\"", "'", "/", "*", "@", " ", "="}

\* runs of one digit around the length of the largest float
LongNumbers ==
    {[i \in 1..n |-> digit] : n \in (DBL_MAX_10_EXP - 1)..(DBL_MAX_10_EXP + 2), digit \in {"1", "9"}}

Inputs == UNION {[1..n -> Alphabet] : n \in 0..MaxChars} \cup LongNumbers

LexInit ==
    /\ \E source \in Inputs :
          lexing = [phase |-> "scanning", lexer |-> Lexer(source), iterations |-> 0]
    /\ parsing = NotParsing
    /\ q = [phase |-> "idle"]
    /\ unit = <<>>
    /\ analyzer = TA_init
    /\ visited = {}
    /\ phase = "idle"
    /\ compiled = Pending
    /\ vm = [v \in VMs |-> VM_init]
    /\ heap = <<>>
    /\ out = <<>>
    /\ host = HostStart
    /\ callerStacks = [v \in VMs |-> <<>>]

\* one iteration of the loop of scan_tokens(); an exception of _scan_token
\* leaves scan_tokens()
ScanToken ==
    /\ lexing.phase = "scanning"
    /\ ~L_is_at_end(lexing.lexer)
    /\ LET scanned == L_scan_token([lexing.lexer EXCEPT !.start = lexing.lexer.current])
       IN  lexing' = [lexing EXCEPT
                         !.lexer = scanned,
                         !.iterations = @ + 1,
                         !.phase = IF scanned.raised # "" THEN "raised" ELSE @]
    /\ UNCHANGED <<q, parsing>>
    /\ UNCHANGED taVars
    /\ UNCHANGED vmVars

\* self.tokens.append(Token(TokenType.EOF, "", None, self.line)); return self.tokens
ScanReturn ==
    /\ lexing.phase = "scanning"
    /\ L_is_at_end(lexing.lexer)
    /\ lexing' = [lexing EXCEPT
                     !.lexer.tokens = Append(@, Token("EOF", "", NilV, lexing.lexer.line)),
                     !.phase = "scanned"]
    /\ UNCHANGED <<q, parsing>>
    /\ UNCHANGED taVars
    /\ UNCHANGED vmVars

LexNext == ScanToken \/ ScanReturn

SpecLex == LexInit /\ [][LexNext]_vars

(***************************************************************************)
(* is_assignable on drawn inputs                                           *)
(***************************************************************************)
MaxTypeDepth == 2

Prims == {ANY, NUMBER, STRING_TYPE}

KeyTypes == Prims \cup {ANY_LIST}

RECURSIVE TypesOfDepth(_)
TypesOfDepth(d) ==
    IF d = 0 THEN Prims
    ELSE     Let( TypesOfDepth(d - 1), LAMBDA S :
            Prims \cup {ListType(e) : e \in S}
                  \cup {DictType(kt, vt) : kt \in KeyTypes, vt \in S})

AssignInit ==
    /\ \E target \in TypesOfDepth(MaxTypeDepth), value \in TypesOfDepth(MaxTypeDepth) :
          q = [phase |-> "drawn", target |-> target, value |-> value]
    /\ parsing = NotParsing
    /\ lexing = NotLexing
    /\ unit = <<>>
    /\ analyzer = TA_init
    /\ visited = {}
    /\ phase = "idle"
    /\ compiled = Pending
    /\ vm = [v \in VMs |-> VM_init]
    /\ heap = <<>>
    /\ out = <<>>
    /\ host = HostStart
    /\ callerStacks = [v \in VMs |-> <<>>]

ApplyIsAssignable ==
    /\ q.phase = "drawn"
    /\ q' = [phase |-> "applied", target |-> q.target, value |-> q.value,
             result |-> is_assignable(q.target, q.value)]
    /\ UNCHANGED <<parsing, lexing>>
    /\ UNCHANGED taVars
    /\ UNCHANGED vmVars

SpecAssign == AssignInit /\ [][ApplyIsAssignable]_vars

(***************************************************************************)
(* Programs running on the VMs                                             *)
(***************************************************************************)
Init ==
    /\ vm = [v \in VMs |-> VM_init]
    /\ heap = <<>>
    /\ out = <<>>
    /\ host = HostStart
    /\ callerStacks = [v \in VMs |-> <<>>]
    /\ unit = <<>>
    /\ analyzer = TA_init
    /\ visited = {}
    /\ phase = "idle"
    /\ compiled = Pending
    /\ q = [phase |-> "idle"]
    /\ parsing = NotParsing
    /\ lexing = NotLexing

Next ==
    \/ \E v \in VMs, p \in Programs : Interpret(v, p)
    \/ \E v \in VMs : InterpretChunk(v)
    \/ \E v \in VMs, method_name \in Handlers, args \in HandlerArgs :
          CallMethodOnInstance(v, method_name, args)
    \/ \E v \in VMs : Refresh(v)
    \/ \E v \in VMs :
          \/ Run_RETURN(v)
          \/ Run_CALL(v)
          \/ Run_CONSTANT(v)
          \/ Run_NEGATE(v)
          \/ Run_ADD(v)
          \/ Run_SUBTRACT(v)
          \/ Run_MULTIPLY(v)
          \/ Run_DIVIDE(v)
          \/ Run_EQUAL(v)
          \/ Run_GREATER(v)
          \/ Run_LESS(v)
          \/ Run_NOT(v)
          \/ Run_TRUE(v)
          \/ Run_FALSE(v)
          \/ Run_NIL(v)
          \/ Run_POP(v)
          \/ Run_DEFINE_GLOBAL(v)
          \/ Run_GET_GLOBAL(v)
          \/ Run_SET_GLOBAL(v)
          \/ Run_GET_LOCAL(v)
          \/ Run_SET_LOCAL(v)
          \/ Run_JUMP(v)
          \/ Run_JUMP_IF_FALSE(v)
          \/ Run_LOOP(v)
          \/ Run_GET_PROPERTY(v)
          \/ Run_SET_PROPERTY(v)
          \/ Run_CLASS(v)
          \/ Run_METHOD(v)
          \/ Run_IMPORT_NATIVE(v)
          \/ Run_BUILD_LIST(v)
          \/ Run_GET_SUBSCRIPT(v)
          \/ Run_SET_SUBSCRIPT(v)
          \/ Run_BUILD_DICT(v)

Spec == Init /\ [][Next]_vars

C1_FlagGatesCodegen ==
    analyzer.errors # <<>> =>
        /\ analyzer.had_error
        /\ phase \in {"done", "fatal"} => compiled = None

\* compile() has returned for the unit
Compiled == phase \in {"done", "fatal"}

\* the initializer error of visit_var_stmt, naming the two types
InitializerError(name, init_type, declared_type) ==
    [kind |-> "initializer", at |-> name, types |-> <<init_type, declared_type>>]

\* C11: a mixed list literal, typed list[any], and a variable of type
\* list[any] are both rejected as initializers of a list[number] variable:
\* the initializer error naming list[any] and list[number] is reported and
\* compile() returns no function.
C11_ListOfAnyRejected ==
    (Compiled /\ unit \in {MixedListUnit, AnyListUnit}) =>
        /\ compiled = None
        /\ \E i \in DOMAIN analyzer.errors :
              analyzer.errors[i] =
                  InitializerError(unit[Len(unit)].name, ListType(ANY), ListType(NUMBER))

\* the assignment error of visit_assign_expr, naming the two types
AssignError(name, value_type, var_type) ==
    [kind |-> "assign", at |-> name, types |-> <<value_type, var_type>>]

Reported(error) == \E n \in DOMAIN analyzer.errors : analyzer.errors[n] = error

\* the type C12 says the declaration records
C12_Recorded(a, i) ==
    IF Annotations[a].expr # None THEN Annotations[a].type
    ELSE TypedExprs[i].type

C12_VarStmt(a, i, v, local) ==
    /\ (~local /\ 1 \in visited) => analyzer.globals["x"] = C12_Recorded(a, i)
    /\ 1 \in visited =>
          (Reported(InitializerError("x", TypedExprs[i].type, Annotations[a].type))
              <=> /\ TypedExprs[i].expr # None
                  /\ ~is_assignable(Annotations[a].type, TypedExprs[i].type))
    /\ (IF local THEN 1 ELSE 2) \in visited =>
          (Reported(AssignError("x", TypedExprs[v].type, C12_Recorded(a, i)))
              <=> ~is_assignable(C12_Recorded(a, i), TypedExprs[v].type))

\* C12: a var declaration records the annotated type when there is an
\* annotation, else the initializer's type, else Any; an initializer not
\* assignable to the annotation and a later assignment not assignable to the
\* recorded type are type errors naming both types.
C12_VarRecordsType ==
    \A a \in DOMAIN Annotations, i \in DOMAIN TypedExprs,
       v \in DOMAIN TypedExprs \ {1}, local \in BOOLEAN :
        unit = VarUnit(a, i, v, local) => C12_VarStmt(a, i, v, local)

\* some error of the given kind was reported at the given token
ReportedAt(kind, at) ==
    \E n \in DOMAIN analyzer.errors :
        analyzer.errors[n].kind = kind /\ analyzer.errors[n].at = at

C13_NumbersOrAny(left, right) ==
    (left = NUMBER /\ right = NUMBER) \/ left = ANY \/ right = ANY

C13_Binary(op, left, right) ==
    /\ op \in {"MINUS", "STAR", "SLASH", "LESS", "LESS_EQUAL", "GREATER", "GREATER_EQUAL"} =>
          (ReportedAt("operands_numbers", op) <=> ~C13_NumbersOrAny(left, right))
    /\ op = "PLUS" =>
          /\ (left = NUMBER /\ right = NUMBER) => analyzer.ret = NUMBER
          /\ (left = STRING_TYPE /\ right = STRING_TYPE) => analyzer.ret = STRING_TYPE
          /\ ReportedAt("operands_plus", op)
                <=> ~(\/ left = NUMBER /\ right = NUMBER
                      \/ left = STRING_TYPE /\ right = STRING_TYPE
                      \/ left = ANY \/ right = ANY)
    /\ op = "EQUAL_EQUAL" => (analyzer.errors = <<>> /\ analyzer.ret = BOOL)

\* C13: -, *, /, <, <=, >, >= are type errors unless both operands are Number
\* or one is Any; + is Number for two Numbers, String for two Strings,
\* accepted with an Any side and a type error otherwise; == is never a type
\* error and has type Bool.
C13_BinaryOperatorTypes ==
    \A op \in ParsedBinaryOps, x \in DOMAIN TypedOperands, y \in DOMAIN TypedOperands :
        (unit = BinaryUnit(op, x, y) /\ visited = {1, 2} /\ phase = "analyze") =>
            C13_Binary(op, TypedOperands[x].type, TypedOperands[y].type)

\* the type of member name of the component of ThisUnit
C17_MemberType(name) == IF name = "p" THEN NUMBER ELSE FUNCTION

C17_This(name, typed) ==
    IF name \in {"p", "a", "b"}
    THEN /\ ~ReportedAt("no_property", name)
         /\ typed => Reported(InitializerError("s", C17_MemberType(name), STRING_TYPE))
    ELSE ReportedAt("no_property", name)

\* C17: in a method of a component, this.<name> has the type of the style
\* property or method of that name, wherever in the component the member is
\* declared, and is a type error when the component has no such member.
C17_ThisMembersAnyOrder ==
    \A order \in MemberOrders, name \in ThisNames, typed \in BOOLEAN :
        (unit = ThisUnit(order, name, typed) /\ 1 \in visited) => C17_This(name, typed)

\* the failure flag of the compiler of a function when its chunk is complete
C18_Flagged(function_stmt, function_type) ==
    C_emit_return(Compiler(function_stmt, function_type)).had_error

\* some function of the unit was compiled with its failure flag set
C18_SomeFlagged(kind, n) ==
    CASE kind = "script" -> C18_Flagged(Function(ScriptName, <<>>, LimitUnit(kind, n)), "script")
      [] kind = "function" -> C18_Flagged(LimitUnit(kind, n)[1], "function")
      [] kind = "method" -> C18_Flagged(LimitUnit(kind, n)[1].body[1], "method")

\* C18: when the compiler of the script, of a nested function or of a method
\* sets its failure flag for a constant index above 255, compile() returns no
\* function.
C18_FlaggedFunctionDiscarded ==
    \A kind \in LimitKinds, n \in {UINT8_MAX + 1, UINT8_MAX + 2} :
        (unit = LimitUnit(kind, n) /\ Compiled /\ C18_SomeFlagged(kind, n)) =>
            compiled = None

(***************************************************************************)
(* The instruction a running VM is about to execute, and its operands      *)
(***************************************************************************)
\* the operand at the given distance from the top of v's stack
Operand(v, distance) == vm[v].stack[Len(vm[v].stack) - distance]

\* the byte that follows the opcode about to execute
ByteOperand(v) == At(Frame(vm[v]).function.v.code, Frame(vm[v]).ip + 1)

\* v is about to execute the instruction with at least n values on its stack
About(v, instruction, n) == Fetching(v, instruction) /\ Len(vm[v].stack) >= n

IsA(x, kind) == x.t = "ref" /\ heap[x.v].kind = kind

\* C2, CALL: the frame pushed for a CompiledFunction called with as many
\* arguments as its arity has the callee's stack slot as its base.
C2_CallPushesFrameAtCallee(v) ==
    (/\ About(v, OP_CALL, ByteOperand(v) + 1)
     /\ Operand(v, ByteOperand(v)).t = "fn"
     /\ Operand(v, ByteOperand(v)).v.arity = ByteOperand(v))
    => /\ Len(vm'[v].frames) = Len(vm[v].frames) + 1
       /\ Frame(vm'[v]).function = Operand(v, ByteOperand(v))
       /\ Frame(vm'[v]).slots_offset = Len(vm[v].stack) - ByteOperand(v) - 1
       /\ vm'[v].stack = vm[v].stack

\* C2, RETURN: the frame of a called CompiledFunction leaves the caller's
\* stack below the callee slot, as it was at the call, and the returned value
C2_ReturnRestoresCaller(v) ==
    (/\ Fetching(v, OP_RETURN)
     /\ Len(vm[v].frames) > 1
     /\ callerStacks[v][Len(vm[v].frames)].callee = "fn")
    => /\ vm[v].stack # <<>>
       /\ Len(vm'[v].frames) = Len(vm[v].frames) - 1
       /\ vm'[v].stack = Append(callerStacks[v][Len(vm[v].frames)].below, Operand(v, 0))

\* C2, RETURN in the last frame: the run ends with (OK, value)
C2_LastReturnEndsRun(v) ==
    (Fetching(v, OP_RETURN) /\ Len(vm[v].frames) = 1)
    => /\ vm[v].stack # <<>>
       /\ vm'[v].status = OK
       /\ vm'[v].result = Operand(v, 0)

C2_Fib8Is21 ==
    (host.program = <<"fib", 8, 0, 0>> /\ vm[host.active].status # RUNNING)
    => (vm[host.active].status = OK /\ vm[host.active].result = IntV(21))

\* C2: a CALL of a CompiledFunction with matching arity pushes a frame whose
\* base is the callee's slot; when that frame executes RETURN the frame stack
\* is one shorter and the operand stack is the caller's stack below the
\* callee slot, unchanged, followed by the returned value, at every depth
\* (recursive fib(8) yields 21); RETURN in the last frame ends the run with
\* (OK, value).
C2_CallReturnFrameEffect ==
    /\ []C2_Fib8Is21
    /\ [][\A v \in VMs : /\ C2_CallPushesFrameAtCallee(v)
                         /\ C2_ReturnRestoresCaller(v)
                         /\ C2_LastReturnEndsRun(v)]_vars

\* the argument counts a callee accepts
C3_Accepted(callee) ==
    CASE callee.t = "native" ->
            IF callee.v.arity = Variadic THEN 0..255 ELSE {callee.v.arity}
      [] callee.t = "fn" -> {callee.v.arity}
      [] callee.t = "bound" -> {callee.v.method.v.arity}
      [] callee.t = "cdef" -> {0, 1}
      [] IsA(callee, "class") ->
            IF DictHas(heap[callee.v].methods, StrV("init"))
            THEN {DictGet(heap[callee.v].methods, StrV("init")).v.arity}
            ELSE {0}
      [] OTHER -> 0..255

C3_ArityMessages ==
    { "Expected arguments but got", "Expected arguments for init but got",
      "constructor takes 0 or 1 arguments, but got", "Method expected arguments but got" }

\* v is about to execute a CALL with a number of arguments its callee does not accept
C3_MismatchedCall(v) ==
    /\ About(v, OP_CALL, ByteOperand(v) + 1)
    /\ ByteOperand(v) \notin C3_Accepted(Operand(v, ByteOperand(v)))

C3_MismatchReported(v) ==
    C3_MismatchedCall(v)
    => /\ vm'[v].frames = [vm[v].frames EXCEPT ![Len(vm[v].frames)].ip = @ + 2]
       /\ vm'[v].status = RUNTIME_ERROR
       /\ \E msg \in C3_ArityMessages :
             out' = Append(out, ArityError(msg, C3_Accepted(Operand(v, ByteOperand(v))),
                                           ByteOperand(v)))

\* the bodies of the callees of the "call" programs print "ran"
C3_NoCalleeCodeRan ==
    (host.program[1] = "call" /\ vm[host.active].status = RUNTIME_ERROR)
    => \A i \in DOMAIN out : out[i].kind # "print"

\* C3: for every callable kind, a CALL whose argument count differs from what
\* the callee accepts pushes no frame, runs no callee code, reports a
\* RuntimeError giving the expected and the actual count, and the run returns
\* RUNTIME_ERROR.
C3_ArityMismatchCallsNothing ==
    /\ []C3_NoCalleeCodeRan
    /\ [][\A v \in VMs : C3_MismatchReported(v)]_vars

\* a bound method of one parameter called with two arguments
C3_Witness ==
    /\ host.program = <<"call", 6, 2, 0>>
    /\ vm["vmA"].status = RUNTIME_ERROR
    /\ Len(vm["vmA"].frames) = 1
    /\ out = <<ArityError("Method expected arguments but got", {1}, 2)>>

\* what each of ShadowPrograms returns when a block's variable shadows the
\* outer one from its declaration to the end of the block
C4_Expected == <<StrV("o"), StrV("gaia"), IntV(1), IntV(1), IntV(5), IntV(1)>>

\* C4: a variable declared in a block shadows the outer variable of that name
\* from its declaration to the end of the block; after the block the name
\* denotes the outer variable, unchanged by the inner declaration and by
\* writes to the inner variable, while writes to non-shadowed outer
\* variables persist.
C4_BlockShadowing ==
    (host.program[1] = "shadow" /\ vm[host.active].status # RUNNING)
    => /\ vm[host.active].status = OK
       /\ vm[host.active].result = C4_Expected[host.program[2]]

\* a number of the language
C5_Number(x) == x.t \in {"int", "float"}

\* v is about to apply an arithmetic instruction to operands it is not defined on
C5_Unsafe(v) ==
    \/ About(v, OP_NEGATE, 1) /\ ~C5_Number(Operand(v, 0))
    \/ \E instruction \in {OP_SUBTRACT, OP_MULTIPLY, OP_DIVIDE, OP_GREATER, OP_LESS} :
          /\ About(v, instruction, 2)
          /\ ~(C5_Number(Operand(v, 0)) /\ C5_Number(Operand(v, 1)))
    \/ /\ About(v, OP_ADD, 2)
       /\ ~(C5_Number(Operand(v, 0)) /\ C5_Number(Operand(v, 1)))
       /\ ~(Operand(v, 0).t = "str" /\ Operand(v, 1).t = "str")

\* C5: NEGATE, SUBTRACT, MULTIPLY, DIVIDE, GREATER or LESS applied to an
\* operand that is not a number, and ADD applied to operands that are neither
\* two numbers nor two strings, stops the run with RUNTIME_ERROR: no value is
\* produced and no host-level failure escapes.
C5_UnsafeArithmeticDefended ==
    [][\A v \in VMs : C5_Unsafe(v) => vm'[v].status = RUNTIME_ERROR]_vars

\* C6: call_method_on_instance started at frame depth d returns as soon as
\* the depth is back to d: while it runs, the frames are deeper than d, so
\* no instruction of a frame that existed before the call is executed.
C6_HandlerReturnsAtStartingDepth ==
    (host.kind = "handler" /\ vm[host.active].status = RUNNING)
    => Len(vm[host.active].frames) > host.depth

C7_GlobalsStay(v) == \A name \in DOMAIN vm[v].globals : name \in DOMAIN vm'[v].globals

\* interpret() on v: a new operand stack and frame stack, the tables untouched
C7_InterpretKeepsGlobals(v) ==
    (host'.calls = host.calls + 1 /\ host'.kind = "interpret" /\ host'.active = v)
    => /\ vm'[v].globals = vm[v].globals
       /\ vm'[v].native_modules = vm[v].native_modules
       /\ vm'[v].frames = <<CallFrame(vm'[v].stack[1], 0, 0)>>
       /\ Len(vm'[v].stack) = 1

\* the tables of a VM other than the one that takes the step
C7_Isolated(v) ==
    v # host'.active
    => /\ vm'[v].globals = vm[v].globals
       /\ vm'[v].native_modules = vm[v].native_modules

\* "return fs;": fs is read from the table of the VM it runs on, and from
\* no other
C7_ReadsOwnGlobals ==
    (/\ host.program = <<"app", 2, 0, 0>>
     /\ host.kind = "interpret"
     /\ vm[host.active].status # RUNNING)
    => IF "fs" \in DOMAIN vm[host.active].globals
       THEN /\ vm[host.active].status = OK
            /\ vm[host.active].result = vm[host.active].globals["fs"]
       ELSE vm[host.active].status = RUNTIME_ERROR

\* C7: interpret() resets the operand stack and the frame stack but never the
\* global table: a global defined during one interpret() call on a VM is
\* readable in every later interpret() call on that VM, and the global table
\* and native-module registry of a VM are never read or changed by code
\* running on another VM.
C7_GlobalsSurviveAndVMsIsolated ==
    /\ []C7_ReadsOwnGlobals
    /\ [][\A v \in VMs : /\ C7_GlobalsStay(v)
                         /\ C7_InterpretKeepsGlobals(v)
                         /\ C7_Isolated(v)]_vars

\* fs, defined by the first program on vmA, is read by a later program on
\* vmA after the same program found it undefined on vmB
C7_Witness ==
    /\ host.calls = 3
    /\ host.program = <<"app", 2, 0, 0>>
    /\ host.kind = "interpret"
    /\ host.active = "vmA"
    /\ vm["vmA"].status = OK
    /\ vm["vmA"].result = IntV(5)
    /\ vm["vmB"].status = RUNTIME_ERROR
    /\ "fs" \notin DOMAIN vm["vmB"].globals

\* the subscript instruction v is about to execute on a List with an integer index
C8_ListSubscript(v, collection, index) ==
    /\ \/ About(v, OP_GET_SUBSCRIPT, 2) /\ collection = Operand(v, 1) /\ index = Operand(v, 0)
       \/ About(v, OP_SET_SUBSCRIPT, 3) /\ collection = Operand(v, 2) /\ index = Operand(v, 1)
    /\ IsA(collection, "list")
    /\ index.t = "int"

C8_OutOfRangeRejected(v) ==
    \A collection, index \in Range(vm[v].stack) :
        (/\ C8_ListSubscript(v, collection, index)
         /\ ~(0 <= index.v /\ index.v < Len(heap[collection.v].elements)))
        => /\ vm'[v].status = RUNTIME_ERROR
           /\ out' = Append(out, IndexOutOfRange(index))
           /\ heap'[collection.v] = heap[collection.v]

\* C8: GET_SUBSCRIPT and SET_SUBSCRIPT on a List of length n succeed only for
\* an integer index i with 0 <= i < n; for every other integer index the run
\* ends with RUNTIME_ERROR, the message names i, and the list is unchanged.
C8_ListSubscriptRange ==
    [][\A v \in VMs : C8_OutOfRangeRejected(v)]_vars

\* the hashable values of the language
C9_Key(x) == x.t \in {"str", "int", "float", "bool", "nil"}

\* the subscript instruction v is about to execute on a Dict
C9_DictSubscript(v, instruction, collection, key) ==
    /\ \/ /\ instruction = OP_GET_SUBSCRIPT /\ About(v, OP_GET_SUBSCRIPT, 2)
          /\ collection = Operand(v, 1) /\ key = Operand(v, 0)
       \/ /\ instruction = OP_SET_SUBSCRIPT /\ About(v, OP_SET_SUBSCRIPT, 3)
          /\ collection = Operand(v, 2) /\ key = Operand(v, 1)
    /\ IsA(collection, "dict")
    /\ C9_Key(key)

\* a read pushes the value stored at the key, nil for a key the Dict does not
\* contain, and changes no object
C9_Read(v) ==
    \A collection, key \in Range(vm[v].stack) :
        C9_DictSubscript(v, OP_GET_SUBSCRIPT, collection, key)
        => /\ vm'[v].status = RUNNING
           /\ vm'[v].stack =
                 Append(SubSeq(vm[v].stack, 1, Len(vm[v].stack) - 2),
                        IF DictHas(heap[collection.v].pairs, key)
                        THEN DictGet(heap[collection.v].pairs, key)
                        ELSE NilV)
           /\ heap' = heap

\* after a write the key holds the written value and every other key its own
C9_Write(v) ==
    \A collection, key \in Range(vm[v].stack) :
        C9_DictSubscript(v, OP_SET_SUBSCRIPT, collection, key)
        => /\ vm'[v].status = RUNNING
           /\ DictHas(heap'[collection.v].pairs, key)
           /\ DictGet(heap'[collection.v].pairs, key) = Operand(v, 0)
           /\ \A i \in DOMAIN heap[collection.v].pairs :
                 PyEq(heap[collection.v].pairs[i].key, key)
                 \/ /\ DictHas(heap'[collection.v].pairs, heap[collection.v].pairs[i].key)
                    /\ DictGet(heap'[collection.v].pairs, heap[collection.v].pairs[i].key)
                          = heap[collection.v].pairs[i].val

\* C9: reading a Dict at a key it does not contain pushes nil, is not an
\* error and does not insert the key; writing any key and then reading it
\* returns the written value, and every other key keeps its value.
C9_DictReadsAndWrites ==
    [][\A v \in VMs : C9_Read(v) /\ C9_Write(v)]_vars

\* C10: is_assignable(T, T), is_assignable(Any, T) and is_assignable(T, Any)
\* hold for every type T, whatever its nesting of List and Dict.
C10_AnyAndReflexive ==
    (q.phase = "applied" /\ (q.target = q.value \/ q.target = ANY \/ q.value = ANY))
        => q.result = TRUE

C10_Witness ==
    /\ q.phase = "applied"
    /\ q.value = ANY
    /\ q.target = ListType(DictType(ANY_LIST, NUMBER))
    /\ q.result = TRUE


\* the value C14 gives a declared property by default
C14_Default(prop) ==
    IF Len(prop.values) # 1 THEN NilV
    ELSE IF prop.values[1].token_type = "TRUE" THEN BoolV(TRUE)
    ELSE IF prop.values[1].token_type = "FALSE" THEN BoolV(FALSE)
    ELSE prop.values[1].literal

\* v is about to call a ComponentDef
C14_Call(v) ==
    /\ About(v, OP_CALL, ByteOperand(v) + 1)
    /\ Operand(v, ByteOperand(v)).t = "cdef"

C14_Overrides(v) ==
    IF ByteOperand(v) = 1 THEN heap[Operand(v, 0).v].pairs ELSE <<>>

\* the new instance holds the defaults with the Dict's entries on top of them
C14_Instance(v, properties, overrides, fields) ==
    /\ \A n \in DOMAIN fields :
          \/ \E k \in DOMAIN properties : fields[n].key = StrV(properties[k].name)
          \/ DictHas(overrides, fields[n].key)
    /\ \A n \in DOMAIN overrides :
          /\ DictHas(fields, overrides[n].key)
          /\ \/ DictGet(fields, overrides[n].key) = overrides[n].val
             \/ /\ overrides[n].key = StrV("state")
                /\ IsA(overrides[n].val, "dict")
    /\ \A k \in DOMAIN properties :
          /\ DictHas(fields, StrV(properties[k].name))
          /\ \/ DictHas(overrides, StrV(properties[k].name))
             \/ DictGet(fields, StrV(properties[k].name)) = C14_Default(properties[k])

C14_Accepted(v) ==
    (/\ C14_Call(v)
     /\ ByteOperand(v) = 0 \/ (ByteOperand(v) = 1 /\ IsA(Operand(v, 0), "dict")))
    => /\ vm'[v].status = RUNNING
       /\ Len(heap') > Len(heap)
       /\ vm'[v].stack # <<>>
       /\ vm'[v].stack[Len(vm'[v].stack)] = Ref(Len(heap) + 1)
       /\ heap'[Len(heap) + 1].kind = "component_instance"
       /\ C14_Instance(v, Operand(v, ByteOperand(v)).v.properties, C14_Overrides(v),
                       heap'[Len(heap) + 1].fields)

C14_Rejected(v) ==
    (/\ C14_Call(v)
     /\ ByteOperand(v) > 1 \/ (ByteOperand(v) = 1 /\ ~IsA(Operand(v, 0), "dict")))
    => /\ vm'[v].status = RUNTIME_ERROR
       /\ heap' = heap

\* C14: calling a ComponentDef with no argument or one Dict yields a new
\* instance whose fields are the declared properties' defaults (the literal
\* of a single value token, the boolean for true/false, nil otherwise) with
\* the Dict's entries on top; one non-Dict argument or more than one
\* argument is a RuntimeError and creates no instance.
C14_ComponentConstruction ==
    [][\A v \in VMs : C14_Accepted(v) /\ C14_Rejected(v)]_vars


\* the constant named by the operand byte of the instruction about to execute
ConstantOperand(v) == At(Frame(vm[v]).function.v.constants, ByteOperand(v))

\* the methods an instance can bind: its class's or its component definition's
C15_Methods(instance) ==
    IF heap[instance.v].kind = "class_instance"
    THEN heap[heap[instance.v].klass.v].methods
    ELSE heap[instance.v].definition.v.methods

\* v is about to read a property of a component instance or class instance
C15_Get(v) ==
    /\ About(v, OP_GET_PROPERTY, 1)
    /\ IsA(Operand(v, 0), "component_instance") \/ IsA(Operand(v, 0), "class_instance")

\* the instance on top of the stack has been replaced by the value
C15_Yields(v, value) ==
    /\ vm'[v].status = RUNNING
    /\ vm'[v].stack = [vm[v].stack EXCEPT ![Len(vm[v].stack)] = value]

C15_FieldsThenMethods(v, instance, name) ==
    IF DictHas(heap[instance.v].fields, name)
    THEN C15_Yields(v, DictGet(heap[instance.v].fields, name))
    ELSE IF DictHas(C15_Methods(instance), name)
    THEN C15_Yields(v, OrionBoundMethod(instance, DictGet(C15_Methods(instance), name)))
    ELSE vm'[v].status = RUNTIME_ERROR

\* C15: GET_PROPERTY on a component instance or class instance yields the
\* field of that name when there is one, even if a method has the same name;
\* otherwise the method bound to the instance; otherwise the run ends with
\* RUNTIME_ERROR.
C15_FieldShadowsMethod ==
    [][\A v \in VMs : C15_Get(v) => C15_FieldsThenMethods(v, Operand(v, 0), ConstantOperand(v))]_vars

\* o.m on a component instance with a field m and a method m returned the field
C15_Witness ==
    /\ host.program = <<"property", 1, 1, 0>>
    /\ vm["vmA"].status = OK
    /\ vm["vmA"].result = IntV(1)

\* the component instances of the heap
ComponentInstances == {i \in DOMAIN heap : heap[i].kind = "component_instance"}

\* the state of instance i: the proxy its constructor put in its field `state`
C16_State(i) == DictGet(heap[i].fields, StrV("state"))

C16_HasState(i) ==
    /\ DictHas(heap[i].fields, StrV("state"))
    /\ Kind(Machine("vmA"), C16_State(i)) = "state_proxy"

\* VM v is about to execute OP_SET_PROPERTY on the state of instance i
C16_Writes(v, i) ==
    /\ Fetching(v, OP_SET_PROPERTY)
    /\ Len(vm[v].stack) >= 2
    /\ C16_HasState(i)
    /\ vm[v].stack[Len(vm[v].stack) - 1] = C16_State(i)

\* C16: a property write on the state of a component instance leaves that
\* instance's dirty flag true, whatever the flag was before (the embedder may
\* have cleared it), and leaves the flag of every other instance as it was;
\* a property read leaves every dirty flag as it was.
C16_StateWritesMarkDirty ==
    [][\A v \in VMs :
          /\ \A i \in ComponentInstances :
                C16_Writes(v, i) =>
                   /\ heap'[i].dirty
                   /\ \A j \in ComponentInstances \ {i} : heap'[j].dirty = heap[j].dirty
          /\ Fetching(v, OP_GET_PROPERTY) =>
                \A j \in ComponentInstances : heap'[j].dirty = heap[j].dirty]_vars

\* a handler is about to write the state of the App instance after the
\* embedder cleared the instance's flag
C16_Witness ==
    \E v \in VMs, i \in ComponentInstances :
        /\ C16_Writes(v, i)
        /\ "App" \in DOMAIN vm[v].globals
        /\ vm[v].globals["App"] = Ref(i)
        /\ ~heap[i].dirty
        /\ \E j \in ComponentInstances \ {i} : C16_HasState(j)

\* the statements of a tree: those of the list and those nested in the
\* bodies of its functions and blocks
RECURSIVE Nested(_)
Nested(statements) ==
    IF statements = <<>> THEN {}
    ELSE {Head(statements)} \cup Nested(Tail(statements))
         \cup (CASE Head(statements).k = "Function" -> Nested(Head(statements).body)
                 [] Head(statements).k = "Block" -> Nested(Head(statements).statements)
                 [] OTHER -> {})

\* fragment name parsed as a source of its own
Alone(name) == P_declaration(Parser(Lexer_scan_tokens(FragmentOf(name))))

\* a well-formed statement: parsed alone it reports nothing and is one node
WellFormed(name) ==
    /\ Alone(name).errors = <<>>
    /\ Alone(name).ret # None
    /\ P_is_at_end(Alone(name))

\* the offset in self.tokens of the first token of the k-th fragment
Start(source, k) == Len(Lexemes(SubSeq(source, 1, k - 1)))

\* _synchronize discarded from the offending token of some error until just
\* after the next ';', just before the next declaration start, or the end
C19_Discarded(r) ==
    /\ \E e \in DOMAIN parsing.parser.errors : parsing.parser.errors[e].at = r.from
    /\ \/ At(parsing.parser.tokens, r.to).token_type = "EOF"
       \/ At(parsing.parser.tokens, r.to - 1).token_type = "SEMICOLON"
       \/ At(parsing.parser.tokens, r.to).token_type \in DeclarationStarts
    /\ \A j \in (r.from + 1)..(r.to - 1) :
          /\ At(parsing.parser.tokens, j - 1).token_type # "SEMICOLON"
          /\ At(parsing.parser.tokens, j).token_type \notin DeclarationStarts

\* the k-th fragment begins at a resume point or later, and outside of
\* everything that was discarded
C19_Resumed(k) ==
    /\ \E i \in DOMAIN parsing.parser.resumes :
          parsing.parser.resumes[i].to <= Start(parsing.source, k)
    /\ \A i \in DOMAIN parsing.parser.resumes :
          \/ parsing.parser.resumes[i].to <= Start(parsing.source, k)
          \/ Start(parsing.source, k + 1) <= parsing.parser.resumes[i].from

C19_Present(k) == Alone(parsing.source[k]).ret \in Nested(parsing.statements)

\* C19: after a parse error the parser discards tokens from the offending
\* token until just after the next ';' or just before the next token that
\* starts a declaration, and resumes there: every well-formed statement
\* beginning at the resume point or later is in the list parse() returns.
C19_ResumedStatementsReturned ==
    parsing.phase = "parsed" =>
       /\ \A i \in DOMAIN parsing.parser.resumes : C19_Discarded(parsing.parser.resumes[i])
       /\ \A k \in DOMAIN parsing.source :
             WellFormed(parsing.source[k]) /\ C19_Resumed(k) => C19_Present(k)

\* the fragments that assign to a Variable, a Get and a GetSubscript, with
\* the node each is to parse to
C20_Targets == [assign |-> "Assign", set |-> "Set", set_subscript |-> "SetSubscript"]

\* the fragments that assign to a literal, a grouping, a binary and a call
C20_InvalidTargets == {"literal_target", "grouping_target", "binary_target", "call_target"}

\* C20: an assignment to a Variable, Get or GetSubscript parses to Assign,
\* Set or SetSubscript; for any other left side the parser reports "Invalid
\* assignment target" and treats it like every other parse error: the
\* statement is synchronized over and leaves no node in the returned AST.
C20_InvalidTargetIsParseError ==
    parsing.iterations = 1 =>
       /\ parsing.source[1] \in DOMAIN C20_Targets =>
             /\ parsing.parser.errors = <<>>
             /\ Len(parsing.statements) = 1
             /\ parsing.statements[1].k = "Expression"
             /\ parsing.statements[1].expression.k = C20_Targets[parsing.source[1]]
       /\ parsing.source[1] \in C20_InvalidTargets =>
             /\ \E e \in DOMAIN parsing.parser.errors :
                   parsing.parser.errors[e].message = "Invalid assignment target."
             /\ parsing.parser.resumes # <<>>
             /\ parsing.statements = <<>>

\* the newline characters of a source
Newlines(source) == {i \in DOMAIN source : source[i] = NEWLINE}

\* the token list scan_tokens() returned: exactly one EOF, in last position,
\* on line 1 + the number of newlines; lines never decrease
C21_Returned(source, tokens) ==
    /\ tokens # <<>>
    /\ tokens[Len(tokens)].token_type = "EOF"
    /\ \A i \in 1..(Len(tokens) - 1) :
          /\ tokens[i].token_type # "EOF"
          /\ tokens[i].line <= tokens[i + 1].line
    /\ tokens[Len(tokens)].line = 1 + Cardinality(Newlines(source))

\* C21: for every input string (unterminated strings or comments and
\* unexpected characters included) scan_tokens terminates and returns: no
\* exception leaves it, every iteration of its loop consumes a character, and
\* the list it returns has exactly one EOF token, in last position, whose
\* line is 1 + the number of newline characters of the input, with token
\* lines non-decreasing along the list.
C21_ScanTokensReturnsOneEof ==
    /\ lexing.phase # "raised"
    /\ lexing.phase = "scanning" => lexing.iterations <= lexing.lexer.current
    /\ lexing.phase = "scanned" => C21_Returned(lexing.lexer.source, lexing.lexer.tokens)

\* the functions and methods declared in a list of statements, each with the
\* function_type its Compiler is built with
RECURSIVE FunctionsOf(_)
FunctionsOf(statements) ==
    IF statements = <<>> THEN {}
    ELSE FunctionsOf(Tail(statements)) \cup
         Let( Head(statements), LAMBDA stmt :
         CASE stmt.k = "Function" ->
                 {[stmt |-> stmt, type |-> "function"]} \cup FunctionsOf(stmt.body)
           [] stmt.k = "Block" -> FunctionsOf(stmt.statements)
           [] stmt.k = "If" ->
                 FunctionsOf(<<stmt.then_branch>>) \cup
                 (IF stmt.else_branch # None THEN FunctionsOf(<<stmt.else_branch>>) ELSE {})
           [] stmt.k = "While" -> FunctionsOf(<<stmt.body>>)
           [] stmt.k = "ComponentStmt" ->
                 UNION {{[stmt |-> stmt.body[i], type |-> "method"]} \cup
                        FunctionsOf(stmt.body[i].body) :
                        i \in {j \in DOMAIN stmt.body : stmt.body[j].k = "Function"}}
           [] stmt.k = "Class" ->
                 UNION {{[stmt |-> stmt.methods[i], type |-> "method"]} \cup
                        FunctionsOf(stmt.methods[i].body) : i \in DOMAIN stmt.methods}
           [] OTHER -> {})

\* the script of program p and every function and method declared in it
C22_Functions(p) ==
    {[stmt |-> Function(ScriptName, <<>>, AstOf(p)), type |-> "script"]} \cup FunctionsOf(AstOf(p))

\* a statement boundary: the length of the code and of self.locals there
C22_Boundary(c) == [offset |-> Len(c.code), locals |-> Len(c.locals)]

\* the Compiler of function f when it has compiled the first k statements of
\* the body
C22_Compiled(f, k) ==
    Compiler(Function(f.stmt.name, f.stmt.params, SubSeq(f.stmt.body, 1, k)), f.type)

\* the statement boundaries of function f: before and after each statement
\* of its body and of the blocks that are statements of its body
C22_Boundaries(f) ==
    {C22_Boundary(C22_Compiled(f, k)) : k \in 0..Len(f.stmt.body)}
    \cup UNION {{C22_Boundary(C_compile_program(C_begin_scope(C22_Compiled(f, k - 1)),
                                                SubSeq(f.stmt.body[k].statements, 1, j))) :
                    j \in 0..Len(f.stmt.body[k].statements)} :
                k \in {i \in DOMAIN f.stmt.body : f.stmt.body[i].k = "Block"}}

\* VM v is about to execute the byte at offset of the code of function f
StandsAt(v, f, offset) ==
    /\ vm[v].status = RUNNING
    /\ vm[v].frames # <<>>
    /\ Frame(vm[v]).function = C_end_compiler(Compiler(f.stmt, f.type))
    /\ Frame(vm[v]).ip = offset

\* VM v stands at statement boundary b of function f
C22_At(v, f, b) == StandsAt(v, f, b.offset)

\* C22: in compiled code, at every statement boundary the operand stack holds
\* above the frame's base exactly as many slots as the compiler's locals list
\* is long there: every expression nets one pushed value, every statement
\* nets zero apart from the locals it declares, and leaving a block pops the
\* locals declared in it.
C22_StackMatchesLocals ==
    host.kind = "interpret" /\ host.program \in Programs =>
       \A f \in C22_Functions(host.program) : \A b \in C22_Boundaries(f) :
           C22_At(host.active, f, b) =>
              Len(vm[host.active].stack) - Frame(vm[host.active]).slots_offset = b.locals

\* VM v runs a program that declares var x directly in the body of f
C23_Runs(v) ==
    /\ host.kind = "interpret"
    /\ host.active = v
    /\ host.program[1] = "local"
    /\ vm[v].status = RUNNING

\* VM v is inside an activation of f
C23_InFunction(v) == C23_Runs(v) /\ Len(vm[v].frames) > 1

\* C23: a variable declared with var directly in a function body is local to
\* each activation: a recursive call that declares it again does not change
\* the value the caller's activation reads afterwards (f(n) returns n), and
\* executing the declaration adds no entry to, and overwrites no entry of,
\* the VM's global table.
C23_FunctionBodyVarIsLocal ==
    [][\A v \in VMs :
          /\ C23_InFunction(v) => vm'[v].globals = vm[v].globals
          /\ C23_Runs(v) /\ vm'[v].status = OK => vm'[v].result = IntV(host.program[2])]_vars

\* C24: if the parser reported at least one syntax error for a source,
\* compile() returns no function, so no statement of the source is executed.
C24_SyntaxErrorBlocksCompile ==
    parsing.phase = "compiled" /\ parsing.parser.errors # <<>> => compiled = None

\* a jump instruction at offset at: where it leaves ip when it jumps
Jump(op, at, target) == [op |-> op, at |-> at, target |-> target]

\* the jumps of `if`, the k-th statement of the body of f: JUMP_IF_FALSE
\* after the condition, over the then branch and its JUMP, to the POP of the
\* false path; JUMP after the then branch, over that POP and the else branch
C25_IfJumps(f, k) ==
        Let( f.stmt.body[k], LAMBDA stmt :
        Let( C_compile_expr(C22_Compiled(f, k - 1), stmt.condition), LAMBDA condition :
        Let( C_compile_stmt(C_emit_byte(C_emit_jump(condition, OP_JUMP_IF_FALSE), OP_POP),
                            stmt.then_branch), LAMBDA then :
       { Jump(OP_JUMP_IF_FALSE, Len(condition.code), Len(then.code) + 3),
         Jump(OP_JUMP, Len(then.code), Len(C22_Compiled(f, k).code)) })))

\* the jumps of `while`, the k-th statement of the body of f: JUMP_IF_FALSE
\* after the condition, over the body and its LOOP, to the POP of the exit;
\* LOOP after the body, back to the first byte of the condition
C25_WhileJumps(f, k) ==
        Let( f.stmt.body[k], LAMBDA stmt :
        Let( C_compile_expr(C22_Compiled(f, k - 1), stmt.condition), LAMBDA condition :
        Let( Len(C22_Compiled(f, k).code), LAMBDA end :
       { Jump(OP_JUMP_IF_FALSE, Len(condition.code), end - 1),
         Jump(OP_LOOP, end - 4, Len(C22_Compiled(f, k - 1).code)) })))

\* the jumps of the if and while statements of the body of f
C25_Jumps(f) ==
    UNION {C25_IfJumps(f, k) : k \in {i \in DOMAIN f.stmt.body : f.stmt.body[i].k = "If"}}
    \cup UNION {C25_WhileJumps(f, k) :
                   k \in {i \in DOMAIN f.stmt.body : f.stmt.body[i].k = "While"}}

\* where jump j leaves ip on VM v: past its operand when it is a
\* JUMP_IF_FALSE on a truthy value, at its target otherwise
C25_Target(v, j) ==
    IF j.op = OP_JUMP_IF_FALSE /\ ~is_falsey(Operand(v, 0)) THEN j.at + 3 ELSE j.target

\* C25: for every compiled if and while statement, executing a patched
\* JUMP_IF_FALSE or JUMP sets ip to the first byte after the code it skips
\* (JUMP_IF_FALSE only on a falsey value; on a truthy one it continues with
\* the next instruction), executing LOOP sets ip to the first byte of the
\* loop condition, and none of them changes the operand stack; so one branch
\* of an if runs per evaluation and a loop body runs once per truthy
\* evaluation of its condition.
C25_JumpsLandOnTargets ==
    [][\A v \in VMs :
          host.active = v /\ host.program \in Programs =>
             \A f \in C22_Functions(host.program) : \A j \in C25_Jumps(f) :
                 StandsAt(v, f, j.at) =>
                    /\ Opcode(v) = j.op
                    /\ vm'[v].stack = vm[v].stack
                    /\ vm'[v].status = RUNNING
                    /\ Frame(vm'[v]).function = Frame(vm[v]).function
                    /\ Frame(vm'[v]).ip = C25_Target(v, j)]_vars

\* the loop of var i = 0; var total = 0; while (i < 3) { total = total + i;
\* i = i + 1; } return total; ran its body three times, and the if of
\* fib(3) chose its branch in each activation
C25_Witness ==
    \E v \in VMs :
        /\ vm[v].status = OK
        /\ \/ host.program = <<"misc", 1, 0, 0>> /\ vm[v].result = IntV(3)
           \/ host.program = <<"fib", 3, 0, 0>> /\ vm[v].result = IntV(2)
        /\ host.active = v

\* C26: the unary ! operator evaluates to true exactly when its operand is
\* falsey (nil or false) and to false for every other operand: every OP_NOT
\* step replaces the top of the stack by that boolean, so !true is false and
\* !false is true.
C26_NotIsTrueOnFalsey ==
    [][\A v \in VMs :
          Fetching(v, OP_NOT) /\ vm[v].stack # <<>> =>
             /\ vm'[v].status = RUNNING
             /\ Len(vm'[v].stack) = Len(vm[v].stack)
             /\ vm'[v].stack[Len(vm'[v].stack)] = BoolV(is_falsey(Operand(v, 0)))]_vars

\* VM v runs a program that declares the recursive function g in a block
C27_Runs(v) ==
    /\ host.kind = "interpret"
    /\ host.active = v
    /\ host.program[1] = "nested"
    /\ vm[v].status = RUNNING

\* C27: a function declared inside a block is bound to a local slot of the
\* enclosing function (no global of its name is defined by the declaration),
\* and a call to its own name from inside its body reaches that same
\* function: g(n), which adds 1 per recursive call, returns n, whether or not
\* a global g exists.
C27_BlockFunctionRecurses ==
    [][\A v \in VMs :
          C27_Runs(v) =>
             /\ host.program[3] = 0 => "g" \notin DOMAIN vm'[v].globals
             /\ vm'[v].status # RUNNING =>
                   vm'[v].status = OK /\ vm'[v].result = IntV(host.program[2])]_vars

\* the Compiler of method f when it has compiled the parameters and no
\* statement
C28_Entered(f) == Compiler(Function(f.stmt.name, f.stmt.params, <<>>), f.type)

\* the methods of program p
C28_Methods(p) == {f \in FunctionsOf(AstOf(p)) : f.type = "method"}

\* C28: in every compiled method of a component, also one named init, the
\* expression this compiles to a read of frame slot 0 without a compile
\* error, and slot 0 holds the receiver when the method runs: the method
\* of c that stores its argument in this.count leaves it in c.count.
C28_ThisIsSlotZero ==
    [][\A v \in VMs :
          host.kind = "interpret" /\ host.active = v /\ host.program[1] = "this"
          /\ vm[v].status = RUNNING =>
             /\ \A f \in C28_Methods(host.program) :
                   /\ C_compile_expr(C28_Entered(f), This).code
                         = C28_Entered(f).code \o <<OP_GET_LOCAL, 0>>
                   /\ ~C_compile_expr(C28_Entered(f), This).had_error
             /\ vm'[v].status # RUNNING =>
                   vm'[v].status = OK /\ vm'[v].result = IntV(host.program[3])]_vars

\* the step is a call_method_on_instance on v that returns without running
\* the method: the method does not exist or the argument count did not match
C29_NotCalled(v) ==
    /\ host'.calls = host.calls + 1
    /\ host'.kind = "handler"
    /\ host'.active = v
    /\ vm'[v].status = NOT_CALLED

\* the step is the one with which the handler running on v completes
C29_Completes(v) ==
    /\ host.kind = "handler"
    /\ host.active = v
    /\ vm[v].status = RUNNING
    /\ vm'[v].status = OK

\* the operand stack of v when the running handler call was made
C29_Before(v) == callerStacks[v][host.depth + 1].below

\* C29: every call_method_on_instance that returns, whether the method ran to
\* completion, the method does not exist, or the argument count did not
\* match, leaves the operand stack at the height it had before the call, so
\* a sequence of handler invocations never grows the operand stack.
C29_HandlerKeepsStackHeight ==
    [][\A v \in VMs :
          /\ C29_NotCalled(v) => Len(vm'[v].stack) = Len(vm[v].stack)
          /\ C29_Completes(v) => Len(vm'[v].stack) = Len(C29_Before(v))]_vars

\* the step is one iteration of the loop of parse()
C30_Iteration == parsing'.iterations = parsing.iterations + 1

\* C30: Parser.parse terminates for every token list that ends in EOF: every
\* iteration of the top-level loop consumes at least one token, no iteration
\* of the block loop or of the component-body loops leaves the position
\* where it was without raising, also when a parse error occurs and
\* synchronization runs, and parse() returns.
C30_ParseTerminates ==
    /\ [][C30_Iteration => parsing'.parser.current > parsing.parser.current]_vars
    /\ [](~parsing.parser.stalled)
    /\ (parsing.phase = "parsing") ~> (parsing.phase = "parsed")

\* parse() has returned from a source in which an error inside a component
\* body and an error at the first token of a statement were synchronized
C30_Witness ==
    /\ parsing.phase = "parsed"
    /\ parsing.source = <<"component_no_colon", "no_expression">>
    /\ Len(parsing.parser.resumes) = 2
    /\ P_is_at_end(parsing.parser)

====
